---- MODULE Spec2Model ----
(***************************************************************************)
(* Model of the butterfish shell multiplexer (ShellState.Mux and the       *)
(* handlers it calls), its line buffer, history log and PS1 parser.        *)
(* Byte strings are sequences of byte values (ASCII only, so that a rune   *)
(* is a byte).                                                             *)
(***************************************************************************)
EXTENDS Integers, Sequences, FiniteSets, TLC

\* ------------------------------------------------------------------ bytes
ETX == 3
BS == 8
TAB == 9
LF == 10
CR == 13
ESC == 27
SP == 32
DEL == 127

\* "\x1b[" : the CSI introducer
CSI == <<ESC, 91>>

\* one decimal digit as a byte
Digit(d) == 48 + d

RECURSIVE Dec(_)
\* fmt's %d for an int
Dec(n) ==
  IF n < 0 THEN <<45>> \o Dec(0 - n)
  ELSE IF n < 10 THEN <<Digit(n)>>
  ELSE Dec(n \div 10) \o <<Digit(n % 10)>>

ESC_CUP == CSI \o <<54, 110>>
ESC_UP(n) == CSI \o Dec(n) \o <<65>>
ESC_RIGHT(n) == CSI \o Dec(n) \o <<67>>
ESC_LEFT(n) == CSI \o Dec(n) \o <<68>>
ESC_CLEAR == CSI \o <<48, 75>>

\* DarkShellColorScheme
ColorPrompt == CSI \o <<51, 56, 59, 53, 59, 49, 53, 52, 109>>
ColorPromptAction == CSI \o <<51, 56, 59, 53, 59, 50, 48, 48, 109>>
ColorCommand == CSI \o <<48, 109>>
ColorAutosuggest == CSI \o <<51, 56, 59, 53, 59, 50, 52, 49, 109>>
ColorAnswer == CSI \o <<51, 56, 59, 53, 59, 50, 49, 52, 109>>
ColorAquarium == CSI \o <<51, 56, 59, 53, 59, 53, 49, 109>>
ColorError == CSI \o <<51, 56, 59, 53, 59, 49, 57, 54, 109>>

\* ---------------------------------------------------------------- strings
Max(a, b) == IF a > b THEN a ELSE b

\* Go's integer / and %: the quotient truncates toward zero (b > 0)
GoDiv(a, b) == IF a >= 0 THEN a \div b ELSE 0 - ((0 - a) \div b)
GoMod(a, b) == a - b * GoDiv(a, b)

\* s[from+1 ..] : Go's s[from:]
Drop(s, from) == SubSeq(s, from + 1, Len(s))

\* Go's s[:to]
Take(s, to) == SubSeq(s, 1, to)

\* bytes.HasPrefix / strings.HasPrefix
HasPrefix(s, p) == Len(p) <= Len(s) /\ Take(s, Len(p)) = p

\* strings.Contains / bytes.Contains
Contains(s, p) == \E i \in 0..(Len(s) - Len(p)) : SubSeq(s, i + 1, i + Len(p)) = p

\* bytes.Index for a single byte; 0-based, -1 when absent
IndexByte(s, b) ==
  IF \E i \in 1..Len(s) : s[i] = b
  THEN (CHOOSE i \in 1..Len(s) : s[i] = b /\ \A j \in 1..(i - 1) : s[j] # b) - 1
  ELSE 0 - 1

\* unicode.IsUpper on an ASCII byte
IsUpper(b) == b >= 65 /\ b <= 90

\* unicode.ToLower / strings.ToLower on ASCII
ToLowerByte(b) == IF IsUpper(b) THEN b + 32 ELSE b
ToLower(s) == [i \in 1..Len(s) |-> ToLowerByte(s[i])]

\* the white space strings.TrimSpace removes (ASCII)
IsSpace(b) == b \in {9, 10, 11, 12, 13, 32}

RECURSIVE TrimLeft(_)
TrimLeft(s) == IF s # <<>> /\ IsSpace(s[1]) THEN TrimLeft(Tail(s)) ELSE s

RECURSIVE TrimRight(_)
TrimRight(s) ==
  IF s # <<>> /\ IsSpace(s[Len(s)]) THEN TrimRight(Take(s, Len(s) - 1)) ELSE s

TrimSpace(s) == TrimRight(TrimLeft(s))

RECURSIVE Flatten(_)
\* the concatenation of a sequence of byte strings
Flatten(ss) == IF ss = <<>> THEN <<>> ELSE Head(ss) \o Flatten(Tail(ss))

RECURSIVE ReplaceAll(_, _, _)
\* strings.ReplaceAll: left to right, non-overlapping
ReplaceAll(s, old, new) ==
  IF Len(s) < Len(old) \/ old = <<>> THEN s
  ELSE IF Take(s, Len(old)) = old
       THEN new \o ReplaceAll(Drop(s, Len(old)), old, new)
       ELSE <<s[1]>> \o ReplaceAll(Tail(s), old, new)

\* ------------------------------------------------------------ ShellBuffer
NoColor == <<>>

NewShellBuffer ==
  [buffer |-> <<>>, cursor |-> 0, termWidth |-> 0, promptLength |-> 0,
   color |-> NoColor, lastAutosuggestLen |-> 0, lastJumpForward |-> 0]

SetColor(b, color) == [b EXCEPT !.color = color]
SetPromptLength(b, n) == [b EXCEPT !.promptLength = n]
SetTerminalWidth(b, w) == [b EXCEPT !.termWidth = w]
Size(b) == Len(b.buffer)
Cursor(b) == b.cursor
String(b) == b.buffer

\* the bytes that redraw the buffer b after an edit that started with the
\* cursor at startingCursor
calculateShellUpdate(b, startingCursor) ==
  IF b.termWidth = 0
  THEN ESC_LEFT(startingCursor) \o b.buffer \o ESC_LEFT(Len(b.buffer) - b.cursor)
  ELSE
    LET newNumLines == GoDiv(Max(Len(b.buffer), b.cursor + 1) + b.promptLength, b.termWidth)
        oldCursorLine == GoDiv(startingCursor + b.promptLength, b.termWidth)
        newCursorLine == GoDiv(b.cursor + b.promptLength, b.termWidth)
        newColumn == GoMod(b.cursor + b.promptLength, b.termWidth)
        posAfterWriting == GoMod(Len(b.buffer) + b.promptLength, b.termWidth)
    IN  <<CR>>
        \o (IF oldCursorLine > 0 THEN ESC_CLEAR \o ESC_UP(oldCursorLine) ELSE <<>>)
        \o (IF b.promptLength > 0 THEN ESC_RIGHT(b.promptLength) ELSE <<>>)
        \o b.color
        \o b.buffer
        \o (IF posAfterWriting = 0 THEN <<CR, LF>> ELSE <<>>)
        \o ESC_CLEAR
        \o (IF b.cursor < Len(b.buffer)
            THEN <<CR>>
                 \o (IF newNumLines - newCursorLine > 0
                     THEN ESC_UP(newNumLines - newCursorLine) ELSE <<>>)
                 \o (IF newColumn > 0 THEN ESC_RIGHT(newColumn) ELSE <<>>)
            ELSE <<>>)

RECURSIVE WriteRunesUnguarded(_, _, _)
\* the loop of ShellBuffer.Write with the left arrow moving the cursor
\* whatever its place
WriteRunesUnguarded(b, runes, i) ==
  IF i > Len(runes) THEN b
  ELSE IF Len(runes) >= i + 2 /\ runes[i] = ESC /\ runes[i + 1] = 91
          /\ runes[i + 2] \in {65, 66, 67, 68}
  THEN IF runes[i + 2] \in {65, 66}
       THEN WriteRunesUnguarded(b, runes, i + 3)
       ELSE IF runes[i + 2] = 67
       THEN WriteRunesUnguarded(IF b.cursor < Len(b.buffer)
                                THEN [b EXCEPT !.cursor = b.cursor + 1] ELSE b,
                                runes, i + 3)
       ELSE WriteRunesUnguarded([b EXCEPT !.cursor = b.cursor - 1], runes, i + 3)
  ELSE IF runes[i] \in {BS, DEL}
  THEN WriteRunesUnguarded(IF b.cursor > 0 /\ Len(b.buffer) > 0
                           THEN [b EXCEPT !.buffer = Take(b.buffer, b.cursor - 1)
                                                     \o Drop(b.buffer, b.cursor),
                                          !.cursor = b.cursor - 1]
                           ELSE b,
                           runes, i + 1)
  ELSE WriteRunesUnguarded([b EXCEPT !.buffer = Take(b.buffer, b.cursor) \o <<runes[i]>>
                                                 \o Drop(b.buffer, b.cursor),
                                     !.cursor = b.cursor + 1],
                           runes, i + 1)

RECURSIVE WriteRunes(_, _, _)
\* the loop of ShellBuffer.Write over runes[i..], i 1-based
WriteRunes(b, runes, i) ==
  IF i > Len(runes) THEN b
  ELSE IF Len(runes) >= i + 2 /\ runes[i] = ESC /\ runes[i + 1] = 91
          /\ runes[i + 2] \in {65, 66, 67, 68}
  THEN IF runes[i + 2] \in {65, 66}
       THEN WriteRunes(b, runes, i + 3)
       ELSE IF runes[i + 2] = 67
       THEN WriteRunes(IF b.cursor < Len(b.buffer)
                       THEN [b EXCEPT !.cursor = b.cursor + 1] ELSE b,
                       runes, i + 3)
       ELSE WriteRunes(IF b.cursor > 0
                       THEN [b EXCEPT !.cursor = b.cursor - 1] ELSE b,
                       runes, i + 3)
  ELSE IF runes[i] \in {BS, DEL}
  THEN WriteRunes(IF b.cursor > 0 /\ Len(b.buffer) > 0
                  THEN [b EXCEPT !.buffer = Take(b.buffer, b.cursor - 1)
                                            \o Drop(b.buffer, b.cursor),
                                 !.cursor = b.cursor - 1]
                  ELSE b,
                  runes, i + 1)
  ELSE WriteRunes([b EXCEPT !.buffer = Take(b.buffer, b.cursor) \o <<runes[i]>>
                                        \o Drop(b.buffer, b.cursor),
                            !.cursor = b.cursor + 1],
                  runes, i + 1)

\* ShellBuffer.Write: the buffer after the write
Write(b, data) == WriteRunes(b, data, 1)

\* ShellBuffer.Write: the bytes it returns
WriteOut(b, data) ==
  IF Len(data) = 0 THEN <<>> ELSE calculateShellUpdate(Write(b, data), b.cursor)

\* ShellBuffer.Clear: the buffer after the call
Clear(b) == [b EXCEPT !.buffer = <<>>, !.cursor = 0]

\* ShellBuffer.Clear: the bytes it returns (the buffer blanked, cursor at 0)
ClearOut(b) ==
  calculateShellUpdate(
    [b EXCEPT !.buffer = [i \in 1..Len(b.buffer) |-> SP], !.cursor = 0], b.cursor)

\* ShellBuffer.WriteAutosuggest: the buffer after the call
WriteAutosuggest(b, text, jumpForward) ==
  [b EXCEPT !.lastAutosuggestLen = Len(text), !.lastJumpForward = jumpForward]

\* ShellBuffer.WriteAutosuggest: the bytes it returns; termWidth # 0
WriteAutosuggestOut(b, text, jumpForward, colorStr) ==
  LET numLines == GoDiv(Len(text) + jumpForward + b.promptLength, b.termWidth)
  IN  IF b.promptLength + jumpForward > b.termWidth THEN <<>>
      ELSE (IF jumpForward > 0 THEN ESC_RIGHT(jumpForward) ELSE <<>>)
           \o (IF colorStr # <<>> THEN colorStr ELSE b.color)
           \o text
           \o <<CR>>
           \o (IF numLines > 0 THEN ESC_UP(numLines) ELSE <<>>)
           \o (IF b.promptLength > 0 THEN ESC_RIGHT(b.promptLength) ELSE <<>>)

\* the blanks ClearLast draws over the last suggestion
Blanks(n) == [i \in 1..n |-> SP]

\* ShellBuffer.EatAutosuggestRune, without its panic
EatAutosuggestRune(b) ==
  [b EXCEPT !.lastAutosuggestLen = b.lastAutosuggestLen - 1,
            !.promptLength = b.promptLength + 1]

\* ----------------------------------------------------------- ShellHistory
historyTypePrompt == 0
historyTypeShellInput == 1
historyTypeShellOutput == 2
historyTypeLLMOutput == 3

NewShellHistory == <<>>

\* ShellHistory.add: a new block whose content is a fresh buffer written with
\* the text
add(blocks, historyType, block) ==
  Append(blocks, [Type |-> historyType, Content |-> Write(NewShellBuffer, block)])

\* ShellHistory.Append that never appends to the last block
HistoryAppendAlwaysNew(blocks, historyType, data) ==
  IF Len(data) = 0 THEN blocks ELSE add(blocks, historyType, data)

\* ShellHistory.Append
HistoryAppend(blocks, historyType, data) ==
  IF Len(data) = 0 THEN blocks
  ELSE IF Len(blocks) > 0 /\ blocks[Len(blocks)].Type = historyType
  THEN [blocks EXCEPT ![Len(blocks)].Content = Write(blocks[Len(blocks)].Content, data)]
  ELSE add(blocks, historyType, data)

\* ShellHistory.NewBlock
NewBlock(blocks) ==
  IF Len(blocks) > 0 THEN add(blocks, blocks[Len(blocks)].Type, <<>>) ELSE blocks

\* ------------------------------------------------------------------- PS1
promptPrefix == <<ESC, 81>>
promptSuffix == <<ESC, 82>>

IsDigit(b) == b >= 48 /\ b <= 57

RECURSIVE DigitRun(_, _)
\* the number of digits of s from position i (1-based) on
DigitRun(s, i) == IF i <= Len(s) /\ IsDigit(s[i]) THEN 1 + DigitRun(s, i + 1) ELSE 0

\* the length of the match of ps1Regex that starts at position i, 0 if none
ps1Regex(s, i) ==
  LET d == DigitRun(s, i + 1)
  IN  IF i <= Len(s) /\ s[i] = SP /\ d > 0 /\ i + 2 + d <= Len(s)
         /\ SubSeq(s, i + 1 + d, i + 2 + d) = promptSuffix
      THEN d + 3 ELSE 0

RECURSIVE Atoi(_)
\* strconv.Atoi of a run of digits
Atoi(ds) == IF ds = <<>> THEN 0 ELSE Atoi(Take(ds, Len(ds) - 1)) * 10 + (ds[Len(ds)] - 48)

RECURSIVE ScanPS1(_, _, _)
\* FindAllStringSubmatch and ReplaceAllString of ps1Regex over s from
\* position i on: leftmost matches, not overlapping
ScanPS1(s, i, acc) ==
  IF i > Len(s) THEN acc
  ELSE LET m == ps1Regex(s, i)
       IN  IF m > 0
           THEN ScanPS1(s, i + m,
                  [last |-> Atoi(SubSeq(s, i + 1, i + m - 3)),
                   count |-> acc.count + 1,
                   cleaned |-> acc.cleaned])
           ELSE ScanPS1(s, i + 1, [acc EXCEPT !.cleaned = acc.cleaned \o <<s[i]>>])

\* ParsePS1 that leaves the prefixes in the text
ParsePS1KeepsPrefix(data) == ScanPS1(data, 1, [last |-> 0, count |-> 0, cleaned |-> <<>>])

\* ParsePS1: [last, count, cleaned]
ParsePS1(data) ==
  LET r == ScanPS1(data, 1, [last |-> 0, count |-> 0, cleaned |-> <<>>])
  IN  [r EXCEPT !.cleaned = ReplaceAll(r.cleaned, promptPrefix, <<>>)]

\* parseAquariumCommand ------------------------------------------------
RunPrefix == <<82, 85, 78, 58, 32>>
GoalAchieved == <<71, 79, 65, 76, 32, 65, 67, 72, 73, 69, 86, 69, 68>>
GoalFailed == <<71, 79, 65, 76, 32, 70, 65, 73, 76, 69, 68>>

RECURSIVE SplitLines(_)
\* strings.Split(input, "\n")
SplitLines(s) ==
  LET i == IndexByte(s, LF)
  IN  IF i < 0 THEN <<s>> ELSE <<Take(s, i)>> \o SplitLines(Drop(s, i + 1))

RECURSIVE FirstRun(_)
\* the first line that starts with "RUN: ", without that prefix; "" if none
FirstRun(lines) ==
  IF lines = <<>> THEN <<>>
  ELSE IF HasPrefix(Head(lines), RunPrefix) THEN Drop(Head(lines), Len(RunPrefix))
  ELSE FirstRun(Tail(lines))

parseAquariumCommand(input) ==
  IF input = <<>> THEN <<>> ELSE FirstRun(SplitLines(input))

\* ------------------------------------------------------------- ShellState
stateNormal == "Normal"
stateShell == "Shell"
statePrompting == "Prompting"
statePromptResponse == "PromptResponse"

VARIABLES
  this,          \* the ShellState, Mux's locals, the two output streams and
                 \* the goroutines the handlers start
  parentStream,  \* what the user will still type (unread parent input)
  childStream,   \* what the child shell will still print: the chunks its
                 \* reader will deliver
  scenario,      \* the environment of the run: the language model's answers,
                 \* the configuration, what the child shell and the user do
  resizes,       \* SIGWINCH notifications delivered so far
  arrived,       \* the chunks the parent reader delivered, each with the State
                 \* it arrived in
  sinceRun       \* the child output received since Mux sent an Aquarium
                 \* command to the child that no completion has answered yet
                 \* (nil if there is no such command)

vars == <<this, parentStream, childStream, scenario, resizes, arrived, sinceRun>>

\* a pointer that may be nil is a sequence of length 0 or 1
Nil == <<>>
Ptr(x) == <<x>>
Deref(p) == p[1]

\* a write of data to the terminal (ParentOut) or to the child (ChildIn),
\* tagged with the place that writes
ParentOutWrite(s, by, data) ==
  IF data = <<>> THEN s
  ELSE [s EXCEPT !.ParentOut = Append(s.ParentOut, [by |-> by, data |-> data])]

ChildInWrite(s, by, data) ==
  IF data = <<>> THEN s
  ELSE [s EXCEPT !.ChildIn = Append(s.ChildIn, [by |-> by, data |-> data])]

\* util.NewReplaceWriter(parentOut, "\n", "\r\n")
PromptAnswerWriter(s, by, data) ==
  ParentOutWrite(s, by, ReplaceAll(data, <<LF>>, <<CR, LF>>))

setState(s, state) == [s EXCEPT !.State = state]

Panic(s, why) == [s EXCEPT !.panic = why]

\* GetCursorPosition: the query written to the terminal; the terminal's
\* answer is the column col the caller is given
GetCursorPosition(s) == ParentOutWrite(s, "GetCursorPosition", ESC_CUP)

\* the buffer a handler edits: this.Prompt or this.Command
Buf(s, which) == IF which = "Prompt" THEN s.Prompt ELSE s.Command
SetBuf(s, which, b) ==
  IF which = "Prompt" THEN [s EXCEPT !.Prompt = b] ELSE [s EXCEPT !.Command = b]

\* ------------------------------------------------------------ goroutines
\* the answer the language model gives to the k-th completion request
Answer(sc, k) ==
  IF k <= Len(sc.llm) THEN sc.llm[k] ELSE [tokens |-> <<>>, err |-> "none"]

\* go CompletionRoutine(request, ...): the goroutine as started
SpawnCompletion(s, sc, kind, prompt, sysMsg, color) ==
  LET k == Cardinality({i \in 1..Len(s.tasks) : s.tasks[i].kind \notin {"canned", "none"}}) + 1
  IN  [s EXCEPT !.tasks = Append(s.tasks,
        [kind |-> kind, prompt |-> prompt, sysMsg |-> sysMsg, color |-> color,
         phase |-> "start", cancelled |-> FALSE, answer |-> Answer(sc, k),
         pos |-> 0, output |-> <<>>, toSend |-> <<>>])]

\* SendPromptResponse: a goroutine that only sends data on PromptOutputChan
SendPromptResponse(s, data) ==
  [s EXCEPT !.tasks = Append(s.tasks,
     [kind |-> "canned", prompt |-> <<>>, sysMsg |-> "none", color |-> <<>>,
      phase |-> "send", cancelled |-> FALSE,
      answer |-> [tokens |-> <<>>, err |-> "none"],
      pos |-> 0, output |-> <<>>, toSend |-> data])]

\* context.WithTimeout(...) of the completion about to start: the handle of
\* the next goroutine
NextCancel(s) == Len(s.tasks) + 1

\* calling a context.CancelFunc
CancelTask(s, id) == [s EXCEPT !.tasks[id].cancelled = TRUE]

\* ------------------------------------------------------------ autosuggest
Panicked(s) == s.panic # "none"

\* ShellBuffer.ClearLast through WriteAutosuggest: an integer division by
\* the terminal width
ClearAutosuggest(s, colorStr) ==
  IF s.LastAutosuggest = <<>> THEN s
  ELSE LET s1 == [s EXCEPT !.LastAutosuggest = <<>>]
       IN  IF s1.AutosuggestBuffer = Nil THEN Panic(s1, "nil AutosuggestBuffer")
           ELSE LET ab == Deref(s1.AutosuggestBuffer)
                IN  IF ab.termWidth = 0 THEN Panic(s1, "integer divide by zero")
                    ELSE [ParentOutWrite(s1, "ClearAutosuggest",
                            WriteAutosuggestOut(ab, Blanks(ab.lastAutosuggestLen),
                                                ab.lastJumpForward, colorStr))
                          EXCEPT !.AutosuggestBuffer = Nil]

\* RequestAutosuggest that starts no goroutine for an empty command either
RequestAutosuggestSkipEmpty(s, sc, command) ==
  IF ~s.AutosuggestEnabled THEN s
  ELSE LET s1 == IF s.AutosuggestCancel # 0
                 THEN [s EXCEPT !.autos[s.AutosuggestCancel].cancelled = TRUE]
                 ELSE s
       IN  IF TrimSpace(command) = <<>> \/ ~sc.promptLibOK
           THEN [s1 EXCEPT !.AutosuggestCancel = 0]
           ELSE [s1 EXCEPT !.autos = Append(s1.autos,
                              [command |-> command, cancelled |-> FALSE, alive |-> TRUE]),
                           !.AutosuggestCancel = Len(s1.autos) + 1,
                           !.requests = s1.requests + 1]

\* RequestAutosuggest: the previous request is cancelled, and a goroutine
\* RequestCancelableAutosuggest is started for the command
RequestAutosuggest(s, sc, command) ==
  IF ~s.AutosuggestEnabled THEN s
  ELSE LET s1 == IF s.AutosuggestCancel # 0
                 THEN [s EXCEPT !.autos[s.AutosuggestCancel].cancelled = TRUE]
                 ELSE s
       IN  IF (Len(command) > 0 /\ TrimSpace(command) = <<>>) \/ ~sc.promptLibOK
           THEN [s1 EXCEPT !.AutosuggestCancel = 0]
           ELSE [s1 EXCEPT !.autos = Append(s1.autos,
                              [command |-> command, cancelled |-> FALSE, alive |-> TRUE]),
                           !.AutosuggestCancel = Len(s1.autos) + 1,
                           !.requests = s1.requests + 1]

RefreshAutosuggest(s, sc, newData, which, colorStr) ==
  LET buffer == Buf(s, which)
  IN  IF Size(buffer) > 0 /\ Size(buffer) = Cursor(buffer)
         /\ HasPrefix(s.LastAutosuggest, newData)
      THEN LET s1 == ParentOutWrite(
                       [s EXCEPT !.LastAutosuggest = Drop(s.LastAutosuggest, Len(newData))],
                       "RefreshAutosuggest", colorStr)
           IN  IF s1.AutosuggestBuffer = Nil THEN Panic(s1, "nil AutosuggestBuffer")
               ELSE IF Deref(s1.AutosuggestBuffer).lastJumpForward > 0
               THEN Panic(s1, "jump forward should be 0")
               ELSE [s1 EXCEPT !.AutosuggestBuffer =
                                 Ptr(EatAutosuggestRune(Deref(s1.AutosuggestBuffer)))]
      ELSE LET s1 == ClearAutosuggest(s, colorStr)
           IN  IF Panicked(s1) THEN s1
               ELSE IF s1.State \in {stateShell, statePrompting}
               THEN RequestAutosuggest(s1, sc, String(buffer))
               ELSE s1

RECURSIVE RightArrows(_)
\* n times "\x1b[C"
RightArrows(n) == IF n <= 0 THEN <<>> ELSE CSI \o <<67>> \o RightArrows(n - 1)

\* RealizeAutosuggest that writes the suggestion to the terminal whatever
\* sendToChild says
RealizeAutosuggestToTerminal(s, which, sendToChild, colorStr) ==
  LET buffer == Buf(s, which)
      jumpforward == Size(buffer) - Cursor(buffer)
      buffer1 == Write(buffer, RightArrows(jumpforward))
      s1 == ParentOutWrite(s, "RealizeAutosuggest", RightArrows(jumpforward))
      s2 == ParentOutWrite(s1, "RealizeAutosuggest", colorStr)
      s3 == ParentOutWrite(s2, "RealizeAutosuggest", s.LastAutosuggest)
  IN  [SetBuf(s3, which, Write(buffer1, s.LastAutosuggest))
       EXCEPT !.LastAutosuggest = <<>>]

\* RealizeAutosuggest on this.Prompt (to the terminal) or this.Command (to
\* the child)
RealizeAutosuggest(s, which, sendToChild, colorStr) ==
  LET buffer == Buf(s, which)
      jumpforward == Size(buffer) - Cursor(buffer)
      buffer1 == Write(buffer, RightArrows(jumpforward))
      moved == [i \in 1..Max(jumpforward, 0) |-> CSI \o <<67>>]
      emit(st, d) == IF sendToChild THEN ChildInWrite(st, "RealizeAutosuggest", d)
                     ELSE ParentOutWrite(st, "RealizeAutosuggest", d)
      RECURSIVE emitAll(_, _)
      emitAll(st, ds) == IF ds = <<>> THEN st ELSE emitAll(emit(st, Head(ds)), Tail(ds))
      s1 == emitAll(s, moved)
      s2 == ParentOutWrite(s1, "RealizeAutosuggest", colorStr)
      s3 == emit(s2, s.LastAutosuggest)
  IN  [SetBuf(s3, which, Write(buffer1, s.LastAutosuggest))
       EXCEPT !.LastAutosuggest = <<>>]

\* ShowAutosuggest for the result of an autosuggest goroutine
ShowAutosuggest(s, which, result, cursorCol, termWidth) ==
  LET buffer == Buf(s, which)
  IN  IF result.Suggestion = <<>> THEN s
      ELSE IF result.Command # String(buffer) THEN s
      ELSE IF Contains(result.Suggestion, <<LF>>) THEN s
      ELSE IF result.Suggestion = s.LastAutosuggest THEN s
      ELSE IF result.Command # <<>>
              /\ ~HasPrefix(ToLower(result.Suggestion), ToLower(result.Command)) THEN s
      ELSE IF result.Suggestion = String(buffer) THEN s
      ELSE LET cmdLen == Size(buffer)
               suggToAdd == Drop(result.Suggestion, cmdLen)
               jumpForward == cmdLen - Cursor(buffer)
               ab == SetTerminalWidth(SetPromptLength(NewShellBuffer, cursorCol), termWidth)
               s1 == [s EXCEPT !.LastAutosuggest = suggToAdd,
                               !.AutosuggestBuffer = Ptr(ab)]
           IN  IF termWidth = 0 THEN Panic(s1, "integer divide by zero")
               ELSE ParentOutWrite(
                      [s1 EXCEPT !.AutosuggestBuffer =
                                   Ptr(WriteAutosuggest(ab, suggToAdd, jumpForward))],
                      "ShowAutosuggest",
                      WriteAutosuggestOut(ab, suggToAdd, jumpForward, ColorAutosuggest))

\* ------------------------------------------------- history read-back
\* filterNonPrintable: '\n', '\t' and the printable runes are kept
filterNonPrintable(s) == SelectSeq(s, LAMBDA r : r \in {LF, TAB} \/ (r >= 32 /\ r <= 126))

\* the second alternative of ansiPattern: ESC, any of "[]()#;?", an optional
\* parameter list of digits and ';', and a final byte
AnsiIntro == {91, 93, 40, 41, 35, 59, 63}
AnsiFinal ==
  (48..57) \cup (65..80) \cup {82, 90, 99} \cup (102..110) \cup {116, 113, 114, 121, 61, 62, 60, 126}

\* (?:\d{1,4}(?:;\d{0,4})*)?
IsAnsiParams(p) ==
  \/ p = <<>>
  \/ /\ IsDigit(p[1])
     /\ \A i \in 1..Len(p) : IsDigit(p[i]) \/ p[i] = 59
     /\ \A i \in 1..(Len(p) - 4) : \E j \in i..(i + 4) : p[j] = 59

\* the end positions of the matches of ansiPattern that start at i
AnsiEnds(s, i) ==
  IF i > Len(s) \/ s[i] # ESC THEN {}
  ELSE {e \in (i + 1)..Len(s) :
          /\ s[e] \in AnsiFinal
          /\ \E a \in (i + 1)..e :
               /\ \A j \in (i + 1)..(a - 1) : s[j] \in AnsiIntro
               /\ IsAnsiParams(SubSeq(s, a, e - 1))}

SetMax(S) == CHOOSE x \in S : \A y \in S : y <= x

RECURSIVE stripANSIFrom(_, _)
stripANSIFrom(s, i) ==
  IF i > Len(s) THEN <<>>
  ELSE IF AnsiEnds(s, i) # {} THEN stripANSIFrom(s, SetMax(AnsiEnds(s, i)) + 1)
  ELSE <<s[i]>> \o stripANSIFrom(s, i + 1)

\* stripANSI: ansiRegexp.ReplaceAllString(str, "")
stripANSI(s) == stripANSIFrom(s, 1)

sanitizeTTYString(s) == filterNonPrintable(stripANSI(s))

RECURSIVE LastNBytesNoBail(_, _, _, _)
\* the loop of GetLastNBytes without the break for a block that does not fit
LastNBytesNoBail(blocks, i, numBytes, truncateLength) ==
  IF i < 1 \/ numBytes <= 0 THEN <<>>
  ELSE LET full == sanitizeTTYString(String(blocks[i].Content))
           content == IF Len(full) > truncateLength THEN Take(full, truncateLength) ELSE full
       IN  Append(LastNBytesNoBail(blocks, i - 1, numBytes - Len(content), truncateLength),
                  [Type |-> blocks[i].Type, Content |-> content])

RECURSIVE LastNBytesSkipping(_, _, _, _)
\* the loop of GetLastNBytes going on to the earlier blocks after a block that
\* does not fit
LastNBytesSkipping(blocks, i, numBytes, truncateLength) ==
  IF i < 1 \/ numBytes <= 0 THEN <<>>
  ELSE LET full == sanitizeTTYString(String(blocks[i].Content))
           content == IF Len(full) > truncateLength THEN Take(full, truncateLength) ELSE full
       IN  IF Len(content) > numBytes
           THEN LastNBytesSkipping(blocks, i - 1, numBytes, truncateLength)
           ELSE Append(LastNBytesSkipping(blocks, i - 1, numBytes - Len(content), truncateLength),
                       [Type |-> blocks[i].Type, Content |-> content])

RECURSIVE LastNBytesFrom(_, _, _, _)
\* the loop of GetLastNBytes from block i down; the blocks come out in
\* history order
LastNBytesFrom(blocks, i, numBytes, truncateLength) ==
  IF i < 1 \/ numBytes <= 0 THEN <<>>
  ELSE LET full == sanitizeTTYString(String(blocks[i].Content))
           content == IF Len(full) > truncateLength THEN Take(full, truncateLength) ELSE full
       IN  IF Len(content) > numBytes THEN <<>>
           ELSE Append(LastNBytesFrom(blocks, i - 1, numBytes - Len(content), truncateLength),
                       [Type |-> blocks[i].Type, Content |-> content])

GetLastNBytes(blocks, numBytes, truncateLength) ==
  LastNBytesFrom(blocks, Len(blocks), numBytes, truncateLength)

\* HistoryTypeToString
HistoryTypeToString(t) ==
  IF t = historyTypePrompt THEN <<80, 114, 111, 109, 112, 116>>
  ELSE IF t = historyTypeShellInput
  THEN <<83, 104, 101, 108, 108, 32, 73, 110, 112, 117, 116>>
  ELSE IF t = historyTypeShellOutput
  THEN <<83, 104, 101, 108, 108, 32, 79, 117, 116, 112, 117, 116>>
  ELSE IF t = historyTypeLLMOutput
  THEN <<76, 76, 77, 32, 79, 117, 116, 112, 117, 116>>
  ELSE <<85, 110, 107, 110, 111, 119, 110>>

\* ------------------------------------------------------ prompt dispatch
\* Config.ShellPromptHistoryWindow, in bytes
ShellPromptHistoryWindow == 64

\* the texts of PrintStatus and PrintHelp, shortened to "S\n" and "H\n"
StatusText == <<83, LF>>
HelpText == <<72, LF>>

PrintStatus(s) ==
  SendPromptResponse(
    PromptAnswerWriter(s, "PrintStatus", ColorAnswer \o StatusText \o ColorCommand),
    StatusText)

PrintHelp(s) ==
  SendPromptResponse(
    PromptAnswerWriter(s, "PrintHelp", ColorAnswer \o HelpText \o ColorCommand),
    HelpText)

\* the colour PrintHistory gives a block
BlockColor(t) ==
  IF t = historyTypePrompt THEN ColorPrompt
  ELSE IF t = historyTypeLLMOutput THEN ColorAnswer
  ELSE IF t = historyTypeShellInput THEN ColorPromptAction
  ELSE ColorCommand

RECURSIVE HistoryText(_)
HistoryText(blocks) ==
  IF blocks = <<>> THEN <<>>
  ELSE ColorAquarium \o HistoryTypeToString(Head(blocks).Type) \o <<LF>>
       \o BlockColor(Head(blocks).Type) \o Head(blocks).Content \o <<LF>>
       \o HistoryText(Tail(blocks))

PrintHistory(s) ==
  SendPromptResponse(
    PromptAnswerWriter(s, "PrintHistory",
      HistoryText(GetLastNBytes(s.History, ShellPromptHistoryWindow, 2048))
        \o ColorCommand),
    <<>>)

\* "status", "help", "history"
StatusWord == <<115, 116, 97, 116, 117, 115>>
HelpWord == <<104, 101, 108, 112>>
HistoryWord == <<104, 105, 115, 116, 111, 114, 121>>

\* "This is your goal: "
GoalPrefix ==
  <<84, 104, 105, 115, 32, 105, 115, 32, 121, 111, 117, 114, 32, 103, 111, 97, 108, 58, 32>>

AquariumStart(s, sc) ==
  LET prompt == GoalPrefix \o Drop(String(s.Prompt), 1)
      s1 == [s EXCEPT !.AquariumMode = TRUE,
                      !.Prompt = Clear(s.Prompt),
                      !.PromptResponseCancel = NextCancel(s),
                      !.History = HistoryAppend(s.History, historyTypePrompt, prompt)]
  IN  SpawnCompletion(s1, sc, "AquariumStart", prompt, "aquarium", ColorAquarium)

AquariumChat(s, sc) ==
  LET prompt == String(s.Prompt)
      s1 == [s EXCEPT !.Prompt = Clear(s.Prompt),
                      !.PromptResponseCancel = NextCancel(s)]
  IN  SpawnCompletion(s1, sc, "AquariumChat", prompt, "aquarium", ColorAquarium)

\* "\nExit code: " and the prompt "%s\nExit code: %d\n"
ExitCodeText == <<LF, 69, 120, 105, 116, 32, 99, 111, 100, 101, 58, 32>>
CommandResponsePrompt(status, output) == output \o ExitCodeText \o Dec(status) \o <<LF>>

AquariumCommandResponse(s, sc, status, output) ==
  SpawnCompletion([s EXCEPT !.PromptResponseCancel = NextCancel(s)], sc,
                  "AquariumCommandResponse", CommandResponsePrompt(status, output),
                  "aquarium", ColorAquarium)

SendPrompt(s, sc) ==
  LET s1 == setState(s, statePromptResponse)
      promptStr == TrimSpace(ToLower(String(s1.Prompt)))
  IN  IF promptStr = StatusWord THEN PrintStatus(s1)
      ELSE IF promptStr = HelpWord THEN PrintHelp(s1)
      ELSE IF promptStr = HistoryWord THEN PrintHistory(s1)
      ELSE LET s2 == [s1 EXCEPT !.PromptResponseCancel = NextCancel(s1)]
           IN  IF ~sc.promptLibOK
               THEN \* the context exists, no goroutine uses it
                    setState([s2 EXCEPT !.tasks = Append(s2.tasks,
                       [kind |-> "none", prompt |-> <<>>, sysMsg |-> "none",
                        color |-> <<>>, phase |-> "done", cancelled |-> FALSE,
                        answer |-> [tokens |-> <<>>, err |-> "none"],
                        pos |-> 0, output |-> <<>>, toSend |-> <<>>])],
                      stateNormal)
               ELSE LET s3 == SpawnCompletion(
                                [s2 EXCEPT !.History = HistoryAppend(s2.History,
                                             historyTypePrompt, String(s2.Prompt))],
                                sc, "SendPrompt", String(s2.Prompt), "shell", ColorAnswer)
                    IN  [s3 EXCEPT !.Prompt = Clear(s3.Prompt)]

\* -------------------------------------------------------- InputFromParent
\* what InputFromParent returns: the state it leaves and the bytes it did
\* not consume (nil is the empty sequence)
Ret(s, leftover) == [s |-> s, leftover |-> leftover]

InputPromptResponse(s, data) ==
  IF data[1] = ETX
  THEN IF s.PromptResponseCancel = 0
       THEN Ret(Panic(s, "nil PromptResponseCancel"), <<>>)
       ELSE Ret([CancelTask(s, s.PromptResponseCancel) EXCEPT !.PromptResponseCancel = 0],
                Tail(data))
  ELSE Ret(s, data)

\* a Normal state that forwards and then hands the rest of the chunk back
InputNormalHandsBack(s, env, data) ==
  Ret(ChildInWrite(s, "forward", data), Tail(data))

InputNormal(s, env, data) ==
  IF env.running THEN Ret(ChildInWrite(s, "forward", data), <<>>)
  ELSE IF IsUpper(data[1]) \/ data[1] = 33
  THEN LET color == IF data[1] = 33 THEN ColorPromptAction ELSE ColorPrompt
           prompt1 == SetColor(Write(Clear(s.Prompt), data), color)
           s1 == [setState(s, statePrompting) EXCEPT !.Prompt = prompt1]
           s2 == GetCursorPosition(ParentOutWrite(s1, "promptStart", color \o data))
       IN  Ret([s2 EXCEPT !.Prompt = SetPromptLength(prompt1, env.col - 1 - Size(prompt1))],
               Tail(data))
  ELSE IF data[1] = TAB
  THEN IF s.LastAutosuggest # <<>>
       THEN Ret(setState(RealizeAutosuggest(s, "Command", TRUE, ColorCommand), stateShell),
                Tail(data))
       ELSE Ret(ChildInWrite(s, "forward", data), Tail(data))
  ELSE IF data[1] = CR
  THEN Ret(ChildInWrite(s, "forward", data), Tail(data))
  ELSE LET s1 == [s EXCEPT !.Command = Write(NewShellBuffer, data)]
           s2 == IF Size(s1.Command) > 0
                 THEN LET r == RefreshAutosuggest(s1, env.sc, data, "Command", ColorCommand)
                      IN  IF Panicked(r) THEN r ELSE setState(r, stateShell)
                 ELSE ClearAutosuggest(s1, ColorCommand)
       IN  IF Panicked(s2) THEN Ret(s2, <<>>)
           ELSE Ret(ChildInWrite(ParentOutWrite(s2, "commandColor", ColorCommand),
                                 "forward", data), <<>>)

InputPrompting(s, env, data) ==
  IF Contains(data, <<CR>>)
  THEN LET s1 == ClearAutosuggest(s, ColorCommand)
           index == IndexByte(data, CR)
           toAdd == Take(data, index)
           s2 == [s1 EXCEPT !.Prompt = Write(s1.Prompt, toAdd)]
           s3 == ParentOutWrite(ParentOutWrite(s2, "promptEdit", WriteOut(s1.Prompt, toAdd)),
                                "promptEnd", <<LF, CR>>)
           promptStr == String(s3.Prompt)
       IN  IF Panicked(s1) THEN Ret(s1, <<>>)
           ELSE IF promptStr = <<>> THEN Ret(Panic(s3, "index out of range"), <<>>)
           ELSE IF promptStr[1] = 33 THEN Ret(AquariumStart(s3, env.sc), Drop(data, index + 1))
           ELSE IF s3.AquariumMode THEN Ret(AquariumChat(s3, env.sc), Drop(data, index + 1))
           ELSE Ret(SendPrompt(s3, env.sc), Drop(data, index + 1))
  ELSE IF data[1] = TAB
  THEN IF s.LastAutosuggest # <<>>
       THEN Ret(RealizeAutosuggest(s, "Prompt", FALSE, ColorPrompt), Tail(data))
       ELSE Ret(ParentOutWrite(s, "forwardTab", data), Tail(data))
  ELSE IF data[1] = ETX
  THEN Ret(setState(ParentOutWrite(
                      ParentOutWrite([s EXCEPT !.Prompt = Clear(s.Prompt)],
                                     "promptEdit", ClearOut(s.Prompt)),
                      "commandColor", ColorCommand),
                    stateNormal), <<>>)
  ELSE LET s1 == ParentOutWrite([s EXCEPT !.Prompt = Write(s.Prompt, data)],
                                "promptEdit", WriteOut(s.Prompt, data))
           s2 == RefreshAutosuggest(s1, env.sc, data, "Prompt", ColorCommand)
       IN  IF Panicked(s2) THEN Ret(s2, <<>>)
           ELSE IF Size(s2.Prompt) = 0
           THEN Ret(setState(ParentOutWrite(s2, "commandColor", ColorCommand), stateNormal),
                    <<>>)
           ELSE Ret(s2, <<>>)

InputShell(s, env, data) ==
  IF Contains(data, <<CR>>)
  THEN LET s1 == ClearAutosuggest(s, ColorCommand)
           index == IndexByte(data, CR)
           s2 == ChildInWrite(setState(s1, stateNormal), "forward", Take(data, index + 1))
       IN  IF Panicked(s1) THEN Ret(s1, <<>>)
           ELSE Ret([s2 EXCEPT !.History = HistoryAppend(s2.History, historyTypeShellInput,
                                                          String(s2.Command)),
                               !.Command = NewShellBuffer],
                    Drop(data, index + 1))
  ELSE IF data[1] = TAB
  THEN IF s.LastAutosuggest # <<>>
       THEN Ret(RealizeAutosuggest(s, "Command", TRUE, ColorCommand), Tail(data))
       ELSE Ret(ChildInWrite(s, "forward", data), Tail(data))
  ELSE LET s1 == [s EXCEPT !.Command = Write(s.Command, data)]
           s2 == RefreshAutosuggest(s1, env.sc, data, "Command", ColorCommand)
           s3 == ChildInWrite(s2, "forward", data)
       IN  IF Panicked(s2) THEN Ret(s2, <<>>)
           ELSE IF Size(s3.Command) = 0 THEN Ret(setState(s3, stateNormal), <<>>)
           ELSE Ret(s3, <<>>)

InputFromParent(s, env, data) ==
  IF s.State = statePromptResponse THEN InputPromptResponse(s, data)
  ELSE IF s.State = stateNormal THEN InputNormal(s, env, data)
  ELSE IF s.State = statePrompting THEN InputPrompting(s, env, data)
  ELSE InputShell(s, env, data)

\* -------------------------------------------------------------------- Mux
\* incompleteAnsiSequence: the data ends inside a CSI sequence: with ESC, or
\* with ESC '[' and parameter bytes and no final byte yet
incompleteAnsiSequence(data) ==
  \E i \in 1..Len(data) :
    /\ data[i] = ESC
    /\ \/ i = Len(data)
       \/ /\ data[i + 1] = 91
          /\ \A j \in (i + 2)..Len(data) : IsDigit(data[j]) \/ data[j] = 59

RECURSIVE RedispatchDropsLeftover(_, _, _)
\* the loop of Mux that forgets what the handler did not consume
RedispatchDropsLeftover(s, env, data) ==
  LET r == InputFromParent(s, env, data)
  IN  IF Panicked(r.s) THEN r.s
      ELSE IF Len(r.leftover) = 0 THEN r.s
      ELSE IF Len(r.leftover) = Len(data) THEN r.s
      ELSE RedispatchDropsLeftover(r.s, env, r.leftover)

RECURSIVE Redispatch(_, _, _)
\* the loop of Mux around InputFromParent
Redispatch(s, env, data) ==
  LET r == InputFromParent(s, env, data)
  IN  IF Panicked(r.s) THEN r.s
      ELSE IF Len(r.leftover) = 0 THEN r.s
      ELSE IF Len(r.leftover) = Len(data)
      THEN [r.s EXCEPT !.parentInBuffer = r.s.parentInBuffer \o r.leftover]
      ELSE Redispatch(r.s, env, r.leftover)

\* case parentInMsg := <-this.ParentInReader, for a message that is not nil
MuxParentIn(s, env, msg) ==
  LET data == s.parentInBuffer \o msg
      s1 == [s EXCEPT !.parentInBuffer = <<>>]
  IN  IF incompleteAnsiSequence(data) THEN [s1 EXCEPT !.parentInBuffer = data]
      ELSE Redispatch(s1, env, data)

\* case childOutMsg := <-this.ChildOutReader, for a message that is not nil
MuxChildOut(s, env, msg) ==
  LET ps1 == ParsePS1(msg)
      s1 == [s EXCEPT !.PromptSuffixCounter = s.PromptSuffixCounter + ps1.count]
  IN  IF s1.State = statePromptResponse
      THEN [s1 EXCEPT !.childOutBuffer = s1.childOutBuffer \o msg]
      ELSE LET s2 == IF s1.AquariumMode
                     THEN [s1 EXCEPT !.AquariumBuffer = s1.AquariumBuffer \o ps1.cleaned]
                     ELSE s1
               s3 == IF s2.State # stateShell
                     THEN [s2 EXCEPT !.History = HistoryAppend(s2.History,
                                                  historyTypeShellOutput, ps1.cleaned)]
                     ELSE s2
               s4 == ParentOutWrite(s3, "childOut", ps1.cleaned)
           IN  IF s4.AquariumMode /\ s4.PromptSuffixCounter >= 2
               THEN [AquariumCommandResponse(
                       ParentOutWrite(s4, "clearLine", <<CR>> \o ESC_CLEAR),
                       env.sc, ps1.last, s4.AquariumBuffer)
                     EXCEPT !.AquariumBuffer = <<>>, !.PromptSuffixCounter = 0]
               ELSE s4

\* the PromptOutputChan case with the "RUN: " line looked for before the
\* goal is
MuxPromptOutputRunFirst(s, env, t) ==
  LET output == s.tasks[t].toSend
      s1 == [s EXCEPT !.tasks[t].phase = "done",
                      !.History = HistoryAppend(s.History, historyTypeLLMOutput, output)]
      s2 == IF Len(s1.childOutBuffer) > 0
            THEN [ParentOutWrite(s1, "flush", s1.childOutBuffer)
                  EXCEPT !.History = HistoryAppend(s1.History, historyTypeShellOutput,
                                                   s1.childOutBuffer),
                         !.childOutBuffer = <<>>]
            ELSE s1
      s3 == ChildInWrite(s2, "newPrompt", <<LF>>)
      aquariumCmd == parseAquariumCommand(output)
  IN  IF s3.AquariumMode /\ aquariumCmd # <<>>
      THEN ChildInWrite(
             setState([s3 EXCEPT !.AquariumBuffer = <<>>, !.PromptSuffixCounter = 0],
                      stateNormal),
             "aquariumCmd", aquariumCmd \o <<LF>>)
      ELSE IF s3.AquariumMode /\ (Contains(output, GoalAchieved) \/ Contains(output, GoalFailed))
      THEN setState([s3 EXCEPT !.AquariumMode = FALSE], stateNormal)
      ELSE setState(
             RequestAutosuggest(
               IF s3.AquariumMode THEN [s3 EXCEPT !.PromptSuffixCounter = 0 - 10000] ELSE s3,
               env.sc, <<>>),
             stateNormal)

\* case output := <-this.PromptOutputChan, output sent by goroutine t
MuxPromptOutput(s, env, t) ==
  LET output == s.tasks[t].toSend
      s1 == [s EXCEPT !.tasks[t].phase = "done",
                      !.History = HistoryAppend(s.History, historyTypeLLMOutput, output)]
      s2 == IF Len(s1.childOutBuffer) > 0
            THEN [ParentOutWrite(s1, "flush", s1.childOutBuffer)
                  EXCEPT !.History = HistoryAppend(s1.History, historyTypeShellOutput,
                                                   s1.childOutBuffer),
                         !.childOutBuffer = <<>>]
            ELSE s1
      s3 == ChildInWrite(s2, "newPrompt", <<LF>>)
      aquariumCmd == parseAquariumCommand(output)
  IN  IF s3.AquariumMode /\ (Contains(output, GoalAchieved) \/ Contains(output, GoalFailed))
      THEN setState([s3 EXCEPT !.AquariumMode = FALSE], stateNormal)
      ELSE IF s3.AquariumMode /\ aquariumCmd # <<>>
      THEN ChildInWrite(
             setState([s3 EXCEPT !.AquariumBuffer = <<>>, !.PromptSuffixCounter = 0],
                      stateNormal),
             "aquariumCmd", aquariumCmd \o <<LF>>)
      ELSE setState(
             RequestAutosuggest(
               IF s3.AquariumMode THEN [s3 EXCEPT !.PromptSuffixCounter = 0 - 10000] ELSE s3,
               env.sc, <<>>),
             stateNormal)

\* case result := <-this.AutosuggestChan, result sent by goroutine t
MuxAutosuggest(s, env, t, suggestion) ==
  LET result == [Command |-> s.autos[t].command, Suggestion |-> suggestion]
      s1 == GetCursorPosition([s EXCEPT !.autos[t].alive = FALSE])
  IN  IF s1.State = statePrompting
      THEN ShowAutosuggest(s1, "Prompt", result, env.col - 1, s1.TerminalWidth)
      ELSE IF s1.State \in {stateShell, stateNormal}
      THEN ShowAutosuggest(s1, "Command", result, env.col - 1, s1.TerminalWidth)
      ELSE s1

\* case <-this.Sigwinch, the terminal now termWidth wide (0 when GetSize fails)
MuxSigwinch(s, termWidth) ==
  [s EXCEPT !.TerminalWidth = termWidth,
            !.Prompt = SetTerminalWidth(s.Prompt, termWidth),
            !.AutosuggestBuffer =
               IF s.AutosuggestBuffer # Nil
               THEN Ptr(SetTerminalWidth(Deref(s.AutosuggestBuffer), termWidth))
               ELSE Nil,
            !.Command = SetTerminalWidth(s.Command, termWidth)]

\* a reader is closed: Butterfish.Cancel() and return
MuxClosed(s) == [s EXCEPT !.done = TRUE]

\* ------------------------------------------------------ CompletionRoutine
\* the text of an error of the language-model client
ErrContextCanceled ==
  <<99, 111, 110, 116, 101, 120, 116, 32, 99, 97, 110, 99, 101, 108, 101, 100>>
ERR_429 == <<52, 50, 57>>
ERR_429_HELP == <<63>>
ErrText(err) ==
  IF err = "canceled" THEN ErrContextCanceled
  ELSE IF err = "quota" THEN ERR_429
  ELSE <<69, 79, 70>>

\* "Error prompting LLM: %s\n"
ErrPrefix ==
  <<69, 114, 114, 111, 114, 32, 112, 114, 111, 109, 112, 116, 105, 110, 103, 32, 76, 76, 77,
    58, 32>>

\* fmt.Fprintf(writer, "%s", normalColor), before the completion is requested
CompletionBegin(s, t) ==
  [PromptAnswerWriter(s, "llm", s.tasks[t].color) EXCEPT !.tasks[t].phase = "stream"]

\* client.CompletionStream writes the next token to the writer
CompletionToken(s, t) ==
  LET task == s.tasks[t]
      tok == task.answer.tokens[task.pos + 1]
  IN  [PromptAnswerWriter(s, "llm", tok)
       EXCEPT !.tasks[t].pos = task.pos + 1,
              !.tasks[t].output = task.output \o tok]

\* client.CompletionStream returns (with err) and the routine sends its result
CompletionEnd(s, t) ==
  LET task == s.tasks[t]
      err == IF task.cancelled THEN "canceled" ELSE task.answer.err
      errStr0 == ErrPrefix \o ErrText(err) \o <<LF>>
      errStr == IF Contains(errStr0, ERR_429)
                THEN errStr0 \o <<LF>> \o ERR_429_HELP ELSE errStr0
      shown == err # "none" /\ ~Contains(errStr, ErrContextCanceled)
      toSend == IF shown THEN task.output \o errStr ELSE task.output
      s1 == IF shown THEN PromptAnswerWriter(s, "llmError", ColorError \o errStr) ELSE s
  IN  [s1 EXCEPT !.tasks[t].toSend = toSend,
                 !.tasks[t].phase = IF Len(toSend) > 0 THEN "send" ELSE "done"]

\* RequestCancelableAutosuggest: the completion's output, cleaned
CleanSuggestion(output) ==
  LET o1 == TrimSpace(output)
      o2 == IF Len(o1) > 1 /\ o1[1] = 34 /\ o1[Len(o1)] = 34
            THEN SubSeq(o1, 2, Len(o1) - 1) ELSE o1
  IN  TrimSpace(o2)

\* ----------------------------------------------------------- environment
\* the state ShellMultiplexer builds before it calls Mux
InitShellState(sc) ==
  [State |-> stateNormal, AquariumMode |-> FALSE, AquariumBuffer |-> <<>>,
   PromptSuffixCounter |-> 0, History |-> NewShellHistory,
   Prompt |-> SetColor(SetTerminalWidth(NewShellBuffer, sc.termWidth), ColorPrompt),
   PromptResponseCancel |-> 0, Command |-> NewShellBuffer,
   TerminalWidth |-> sc.termWidth, AutosuggestEnabled |-> sc.autosuggest,
   LastAutosuggest |-> <<>>, AutosuggestCancel |-> 0, AutosuggestBuffer |-> Nil,
   parentInBuffer |-> <<>>, childOutBuffer |-> <<>>,
   ParentOut |-> <<>>, ChildIn |-> <<>>,
   tasks |-> <<>>, autos |-> <<>>, requests |-> 0,
   panic |-> "none", done |-> FALSE]

Env(col, running) == [col |-> col, running |-> running, sc |-> scenario]

\* Mux that keeps serving its channels after a reader has ended
AliveAfterClose == ~Panicked(this)

Alive == ~this.done /\ ~Panicked(this)

\* -------------------------------------------------------------- scenarios
\* "ls", "How do I grep?", "ls -la"
Ls == <<108, 115>>
HowDoIGrep == <<72, 111, 119, 32, 100, 111, 32, 73, 32, 103, 114, 101, 112, 63>>
LsLa == <<108, 115, 32, 45, 108, 97>>

\* a prompt marker of the child shell with exit status d: " d" ESC R
Marker(d) == <<SP, Digit(d)>> \o promptSuffix

\* the child shell's prompt "$" with exit status d, as PS1 makes it
ShellPrompt(d) == promptPrefix \o <<36>> \o Marker(d)

\* the bounds of the runs
MaxResizes == 1
TermWidth == 20

Scenario(name, parent, child, llm) ==
  [name |-> name, parent |-> parent, child |-> child, llm |-> llm,
   split |-> FALSE, cols |-> {1},
   sugg |-> {}, autosuggest |-> FALSE, promptLibOK |-> TRUE,
   termWidth |-> TermWidth, widths |-> {}, mayRun |-> FALSE, closes |-> FALSE]

Reply(tokens) == [tokens |-> tokens, err |-> "none"]

\* the reader may deliver a line in any pieces, and the terminal may report
\* any of these columns for the cursor
CursorCols == {1, 4}
AnyChunks(sc) == [sc EXCEPT !.split = TRUE, !.cols = CursorCols]

ScenarioLs == AnyChunks(Scenario("ls", <<Ls \o <<CR>>>>, <<>>, <<>>))

ScenarioGrep ==
  AnyChunks(Scenario("grep", <<HowDoIGrep \o <<CR>>>>, <<>>, <<Reply(<<<<97>>, <<98, LF>>>>)>>))

\* a prompt, while the child prints "o" and a prompt of its own
ScenarioRespond ==
  AnyChunks(Scenario("respond", <<<<72, CR>>>>, <<<<111>>, ShellPrompt(0)>>,
                     <<Reply(<<<<97>>, <<98>>>>)>>))

\* a prompt, then Ctrl-C
ScenarioCtrlC ==
  AnyChunks(Scenario("ctrlc", <<<<72, CR, ETX>>>>, <<>>, <<Reply(<<<<97>>>>)>>))

\* a prompt, then the command "ls"
ScenarioTyped ==
  AnyChunks(Scenario("typed", <<<<72, CR>> \o Ls \o <<CR>>>>, <<>>, <<Reply(<<<<97>>>>)>>))

\* an Aquarium goal; the model asks for a command, then declares the goal met
ScenarioAquarium ==
  Scenario("aquarium", <<<<33, 103, CR>>>>,
           <<ShellPrompt(0), <<99, LF, 111>>, ShellPrompt(1)>>,
           <<Reply(<<RunPrefix, <<99>>>>), Reply(<<GoalAchieved>>)>>)

\* an Aquarium goal and a chat line, the goal is declared met by the first
\* answer; then a plain prompt, while the child prints "o"
ScenarioOverlap ==
  Scenario("overlap", <<<<33, 103, CR>>, <<105, CR>>, <<72, CR>>>>, <<<<111>>>>,
           <<Reply(<<GoalAchieved>>), Reply(<<<<120>>>>), Reply(<<<<121>>>>)>>)

\* an Aquarium goal; the model's answer has two "RUN: " lines, "RUN: a" and
\* then "RUN: b"
ScenarioTwoRuns ==
  Scenario("tworuns", <<<<33, 103, CR>>>>, <<ShellPrompt(0), ShellPrompt(1)>>,
           <<Reply(<<RunPrefix \o <<97, LF>> \o RunPrefix \o <<98>>>>), Reply(<<GoalFailed>>)>>)

\* an Aquarium goal; the model's answer has a "RUN: " line and declares
\* the goal met
ScenarioGoalRun ==
  Scenario("goalrun", <<<<33, 103, CR>>>>, <<ShellPrompt(0), ShellPrompt(0)>>,
           <<Reply(<<RunPrefix \o <<97, LF>>, GoalAchieved>>)>>)

Scenarios ==
  { ScenarioLs, ScenarioRespond, ScenarioCtrlC, ScenarioTyped, ScenarioAquarium,
    ScenarioOverlap, ScenarioTwoRuns, ScenarioGoalRun }

\* "ls" and Tab, with autosuggest on; the model suggests "ls -la"
ScenarioTab ==
  [AnyChunks(Scenario("tab", <<Ls \o <<TAB>>>>, <<>>, <<>>))
   EXCEPT !.autosuggest = TRUE, !.sugg = {LsLa}, !.widths = {TermWidth - 10},
          !.closes = TRUE]

\* a prompt and then Tab, with autosuggest on, while the child may have a job
\* in the foreground
ScenarioTabNormal ==
  [Scenario("tabnormal", <<<<72, CR>>, <<TAB>>>>, <<<<111>>>>, <<Reply(<<<<97>>>>)>>)
   EXCEPT !.autosuggest = TRUE, !.sugg = {LsLa}, !.mayRun = TRUE]

\* "ls", cursor left, then Tab, with autosuggest on; the model suggests
\* "ls -la", or the same in quotes
ScenarioTabLeft ==
  [Scenario("tableft", <<<<108>>, <<115>>, CSI \o <<68>>, <<TAB>>>>, <<>>, <<>>)
   EXCEPT !.autosuggest = TRUE, !.sugg = {LsLa, <<34>> \o LsLa \o <<34, SP>>},
          !.cols = CursorCols]

\* two spaces and then two backspaces, with autosuggest on
ScenarioBlank ==
  [Scenario("blank", <<<<SP>>, <<SP>>, <<DEL>>, <<DEL>>>>, <<>>, <<>>)
   EXCEPT !.autosuggest = TRUE, !.sugg = {LsLa}]

\* a prompt "Hi", cursor left, Ctrl-C, and then a space, with autosuggest on;
\* the model suggests "Hi t"
ScenarioPromptLeft ==
  [Scenario("promptleft", <<<<72>>, <<105>>, CSI \o <<68>>, <<ETX>>, <<SP>>>>, <<>>, <<>>)
   EXCEPT !.autosuggest = TRUE, !.sugg = {<<72, 105, SP, 116>>}, !.cols = {4}]

\* a prompt "Hi", Ctrl-C, and then Tab, with autosuggest on; the model
\* suggests "Hi t"
ScenarioPromptTab ==
  [Scenario("prompttab", <<<<72>>, <<105>>, <<ETX>>, <<TAB>>>>, <<>>, <<>>)
   EXCEPT !.autosuggest = TRUE, !.sugg = {<<72, 105, SP, 116>>}, !.cols = {4}]

\* "ls" with autosuggest on, and a resize after which the size of the
\* terminal cannot be read (GetSize gives width 0); the model suggests "ls -la"
ScenarioResize ==
  [Scenario("resize", <<<<108>>, <<115>>>>, <<>>, <<>>)
   EXCEPT !.autosuggest = TRUE, !.sugg = {LsLa}, !.widths = {0}]

TabScenarios ==
  { ScenarioTab, ScenarioTabNormal, ScenarioTabLeft, ScenarioBlank, ScenarioPromptLeft,
    ScenarioPromptTab, ScenarioResize }

\* ---------------------------------------------------------------- actions
InitWith(sc) ==
  /\ scenario = sc
  /\ this = InitShellState(sc)
  /\ parentStream = sc.parent
  /\ childStream = sc.child
  /\ resizes = 0
  /\ arrived = <<>>
  /\ sinceRun = Nil

Init == \E sc \in Scenarios : InitWith(sc)

InitGrep == InitWith(ScenarioGrep)

InitTab == \E sc \in TabScenarios : InitWith(sc)

\* the parent reader delivers the next bytes the user typed
ParentIn ==
  /\ Alive
  /\ parentStream # <<>>
  /\ \E n \in (IF scenario.split THEN 1..Len(Head(parentStream))
                ELSE {Len(Head(parentStream))}),
        col \in scenario.cols,
        running \in (IF scenario.mayRun THEN BOOLEAN ELSE {FALSE}) :
       LET msg == Take(Head(parentStream), n)
           rest == Drop(Head(parentStream), n)
       IN  /\ this' = MuxParentIn(this, Env(col, running), msg)
           /\ parentStream' = IF rest = <<>> THEN Tail(parentStream)
                              ELSE <<rest>> \o Tail(parentStream)
           /\ arrived' = Append(arrived, [state |-> this.State, data |-> msg])
  /\ UNCHANGED <<childStream, scenario, resizes, sinceRun>>

\* the child reader delivers the next bytes the child shell printed
ChildOut ==
  /\ Alive
  /\ childStream # <<>>
  /\ this' = MuxChildOut(this, Env(1, FALSE), Head(childStream))
  /\ childStream' = Tail(childStream)
  /\ sinceRun' = IF sinceRun = Nil \/ Len(this'.tasks) > Len(this.tasks) THEN Nil
                 ELSE Ptr(Deref(sinceRun) \o Head(childStream))
  /\ UNCHANGED <<parentStream, scenario, resizes, arrived>>

\* Mux receives the result of a prompt goroutine
PromptOutput ==
  /\ Alive
  /\ \E t \in 1..Len(this.tasks) :
       /\ this.tasks[t].phase = "send"
       /\ this' = MuxPromptOutput(this, Env(1, FALSE), t)
  /\ sinceRun' = IF this'.ChildIn # <<>> /\ this'.ChildIn[Len(this'.ChildIn)].by = "aquariumCmd"
                 THEN Ptr(<<>>) ELSE sinceRun
  /\ UNCHANGED <<parentStream, childStream, scenario, resizes, arrived>>

\* Mux receives the result of an autosuggest goroutine
Autosuggest ==
  /\ Alive
  /\ \E t \in 1..Len(this.autos), col \in CursorCols, output \in scenario.sugg :
       /\ this.autos[t].alive
       /\ this' = MuxAutosuggest(this, Env(col, FALSE), t, CleanSuggestion(output))
  /\ UNCHANGED <<parentStream, childStream, scenario, resizes, arrived, sinceRun>>

\* a cancelled autosuggest goroutine returns without a result
AutosuggestDies ==
  /\ Alive
  /\ \E t \in 1..Len(this.autos) :
       /\ this.autos[t].alive /\ this.autos[t].cancelled
       /\ this' = [this EXCEPT !.autos[t].alive = FALSE]
  /\ UNCHANGED <<parentStream, childStream, scenario, resizes, arrived, sinceRun>>

\* the terminal is resized
Sigwinch ==
  /\ Alive
  /\ resizes < MaxResizes
  /\ \E w \in scenario.widths : this' = MuxSigwinch(this, w)
  /\ resizes' = resizes + 1
  /\ UNCHANGED <<parentStream, childStream, scenario, arrived, sinceRun>>

\* the parent or the child stream ends
Closed ==
  /\ Alive
  /\ scenario.closes
  /\ parentStream = <<>> \/ childStream = <<>>
  /\ this' = MuxClosed(this)
  /\ UNCHANGED <<parentStream, childStream, scenario, resizes, arrived, sinceRun>>

\* a step of a CompletionRoutine goroutine
LLMBegin ==
  /\ Alive
  /\ \E t \in 1..Len(this.tasks) :
       /\ this.tasks[t].phase = "start"
       /\ this' = CompletionBegin(this, t)
  /\ UNCHANGED <<parentStream, childStream, scenario, resizes, arrived, sinceRun>>

LLMToken ==
  /\ Alive
  /\ \E t \in 1..Len(this.tasks) :
       /\ this.tasks[t].phase = "stream"
       /\ ~this.tasks[t].cancelled
       /\ this.tasks[t].pos < Len(this.tasks[t].answer.tokens)
       /\ this' = CompletionToken(this, t)
  /\ UNCHANGED <<parentStream, childStream, scenario, resizes, arrived, sinceRun>>

LLMEnd ==
  /\ Alive
  /\ \E t \in 1..Len(this.tasks) :
       /\ this.tasks[t].phase = "stream"
       /\ this.tasks[t].cancelled \/ this.tasks[t].pos = Len(this.tasks[t].answer.tokens)
       /\ this' = CompletionEnd(this, t)
  /\ UNCHANGED <<parentStream, childStream, scenario, resizes, arrived, sinceRun>>

\* the prompt path: user input, child output and the prompt goroutines
Next ==
  \/ ParentIn
  \/ ChildOut
  \/ PromptOutput
  \/ LLMBegin
  \/ LLMToken
  \/ LLMEnd

Spec == Init /\ [][Next]_vars

\* "How do I grep?" and Enter, typed in any pieces
SpecGrep == InitGrep /\ [][ParentIn \/ LLMBegin \/ LLMToken \/ LLMEnd \/ PromptOutput]_vars

\* the autosuggest path: also the autosuggest goroutines, a resize and the end
\* of the streams
NextTab ==
  \/ Next
  \/ Autosuggest
  \/ AutosuggestDies
  \/ Sigwinch
  \/ Closed

SpecTab == InitTab /\ [][NextTab]_vars

\* --------------------------------------------------- the line buffer alone
\* the bounds: the longest buffer, the terminal widths (0: no wrapping) and
\* the columns the prompt buffer starts at
MaxBuf == 5
Widths == {0, 3, 4}
Offsets == {0, 2}

\* what is written to the buffer in one call: a rune, two runes, backspace,
\* delete, two backspaces, and the arrows up, right and left
Keys ==
  { <<97>>, <<98>>, <<97, 98>>, <<BS>>, <<DEL>>, <<BS, BS>>,
    CSI \o <<65>>, CSI \o <<67>>, CSI \o <<68>> }

\* no typing, the prompt buffer empty, for a terminal w wide
ScenarioEdit(w) == [Scenario("edit", <<>>, <<>>, <<>>) EXCEPT !.termWidth = w]

\* the prompt buffer is empty, with some width and some prompt length
InitBuffer ==
  \E w \in Widths, p \in Offsets :
    /\ scenario = ScenarioEdit(w)
    /\ this = [InitShellState(ScenarioEdit(w)) EXCEPT !.Prompt = SetPromptLength(@, p)]
    /\ parentStream = <<>>
    /\ childStream = <<>>
    /\ resizes = 0
    /\ arrived = <<>>
    /\ sinceRun = Nil

BufferWrite ==
  /\ \E data \in Keys :
       /\ Size(Write(this.Prompt, data)) <= MaxBuf
       /\ this' = [this EXCEPT !.Prompt = Write(this.Prompt, data)]
  /\ UNCHANGED <<parentStream, childStream, scenario, resizes, arrived, sinceRun>>

BufferClear ==
  /\ this' = [this EXCEPT !.Prompt = Clear(this.Prompt)]
  /\ UNCHANGED <<parentStream, childStream, scenario, resizes, arrived, sinceRun>>

NextBuffer ==
  \/ BufferWrite
  \/ BufferClear

SpecBuffer == InitBuffer /\ [][NextBuffer]_vars

\* -------------------------------------------------- one chunk of the child
\* the bound: the pieces of a chunk
MaxPieces == 3

\* the pieces a chunk of child output is made of: "$", a space, "7", "13",
\* the suffix, the prefix, and ESC, 'Q' and 'R' alone
Pieces == { <<36>>, <<SP>>, <<55>>, <<49, 51>>, promptSuffix, promptPrefix, <<ESC>>, <<81>>, <<82>> }

RECURSIVE PieceSeqs(_)
\* the chunks of n pieces
PieceSeqs(n) ==
  IF n = 0 THEN {<<>>} ELSE {p \o q : p \in Pieces, q \in PieceSeqs(n - 1)}

\* "prefix foo\nbar $ 0" suffix "baz $ 137" suffix
PS1Example ==
  <<112, 114, 101, 102, 105, 120, 32, 102, 111, 111, LF, 98, 97, 114, 32, 36, 32, 48>>
    \o promptSuffix \o <<98, 97, 122, 32, 36, 32, 49, 51, 55>> \o promptSuffix

PS1Inputs == {PS1Example} \cup UNION {PieceSeqs(n) : n \in 1..MaxPieces}

\* the child prints one chunk
InitPS1 == \E data \in PS1Inputs : InitWith(Scenario("ps1", <<>>, <<data>>, <<>>))

SpecPS1 == InitPS1 /\ [][ChildOut]_vars

\* ------------------------------------------------------ the history alone
\* the bounds: the number of blocks, the runes of all blocks together, and
\* the byte limits asked of GetLastNBytes
MaxBlocks == 2
MaxRunes == 3
MaxBytes == 4
MaxTruncate == 3

\* the texts appended: "a", a backspace, a cursor-left, and the colour reset
\* ESC [ m
HistoryInputs == { <<97>>, <<BS>>, CSI \o <<68>>, CSI \o <<109>> }

RECURSIVE Runes(_)
\* the runes of all blocks together
Runes(blocks) ==
  IF blocks = <<>> THEN 0 ELSE Size(Head(blocks).Content) + Runes(Tail(blocks))

HistoryTypes == {historyTypeShellInput, historyTypeShellOutput}

\* no typing; the history is empty
InitHistory == InitWith(Scenario("history", <<>>, <<>>, <<>>))

HistoryAppendStep ==
  /\ \E historyType \in HistoryTypes, data \in HistoryInputs :
       LET after == HistoryAppend(this.History, historyType, data)
       IN  /\ Len(after) <= MaxBlocks
           /\ Runes(after) <= MaxRunes
           /\ this' = [this EXCEPT !.History = after]
  /\ UNCHANGED <<parentStream, childStream, scenario, resizes, arrived, sinceRun>>

HistoryNewBlock ==
  /\ Len(this.History) < MaxBlocks
  /\ this' = [this EXCEPT !.History = NewBlock(this.History)]
  /\ UNCHANGED <<parentStream, childStream, scenario, resizes, arrived, sinceRun>>

NextHistory ==
  \/ HistoryAppendStep
  \/ HistoryNewBlock

SpecHistory == InitHistory /\ [][NextHistory]_vars

\* ------------------------------------------------------------ properties
Last(q) == q[Len(q)]

\* the bytes of the writes of a log that the places in tags made
Written(log, tags) ==
  Flatten([i \in 1..Len(SelectSeq(log, LAMBDA w : w.by \in tags)) |->
             SelectSeq(log, LAMBDA w : w.by \in tags)[i].data])

\* the goroutines whose result Mux has not processed yet
InFlight(s) == {t \in 1..Len(s.tasks) : s.tasks[t].phase \in {"start", "stream", "send"}}

\* the goroutine of the response that put the shell in PromptResponse: the
\* last one SendPrompt started (0 if none)
ResponseTask(s) ==
  SetMax({0} \cup {t \in 1..Len(s.tasks) : s.tasks[t].kind \in {"SendPrompt", "canned"}})

\* Mux processes the prompt-output message of goroutine t in this step
Processed(t) ==
  /\ t \in 1..Len(this.tasks)
  /\ this.tasks[t].phase = "send"
  /\ this'.tasks[t].phase = "done"

\* the types and the texts of the history blocks
Blocks(s) ==
  [i \in 1..Len(s.History) |->
     [Type |-> s.History[i].Type, Content |-> String(s.History[i].Content)]]

\* C1: child output that arrives in PromptResponse reaches neither the terminal
\* nor the history when it arrives
C1_HeldBack ==
  (this.State = statePromptResponse /\ childStream' # childStream)
    => /\ this'.ParentOut = this.ParentOut
       /\ this'.History = this.History
       /\ this'.childOutBuffer = this.childOutBuffer \o Head(childStream)

\* C1: the buffered child output leaves the buffer when the prompt-output
\* message of the response is processed; it is then written to the terminal
\* once, as it arrived, and is the ShellOutput block that follows the response's
\* LlmOutput block
C1_Flushed ==
  (this.childOutBuffer # <<>> /\ this'.childOutBuffer # this.childOutBuffer
     /\ childStream' = childStream)
    => /\ Processed(ResponseTask(this))
       /\ this'.ParentOut =
            Append(this.ParentOut, [by |-> "flush", data |-> this.childOutBuffer])
       /\ Len(Blocks(this')) >= 2
       /\ Blocks(this')[Len(Blocks(this')) - 1].Type = historyTypeLLMOutput
       /\ Last(Blocks(this')).Type = historyTypeShellOutput

\* C1: child output received in PromptResponse is held back until the
\* prompt-output message of that response is processed, and is then flushed to
\* the terminal once, in order, and to the history after the response
C1_BufferedUntilResponse == [][C1_HeldBack /\ C1_Flushed]_vars

\* a goroutine that has streamed a part of its answer and has more to stream
Streaming(s) ==
  {t \in InFlight(s) : /\ s.tasks[t].phase = "stream"
                       /\ s.tasks[t].pos > 0
                       /\ s.tasks[t].pos < Len(s.tasks[t].answer.tokens)}

\* C2: while a completion (plain, Aquarium start, chat or command response) is
\* streaming its answer to the terminal, no child output is written to the
\* terminal
C2_NoInterleaving ==
  [][Streaming(this) # {}
       => Written(this'.ParentOut, {"childOut", "flush"})
            = Written(this.ParentOut, {"childOut", "flush"})]_vars

\* the text holds a piece of a prompt marker: ESC Q, or " <digits>" ESC R
HasMarker(d) ==
  \/ Contains(d, promptPrefix)
  \/ \E i \in 1..Len(d) : ps1Regex(d, i) > 0

\* C3: no prompt marker of the child's output is written to the terminal or
\* stored in the history, also when the output was buffered and flushed
C3_NoMarkerShown ==
  /\ \A i \in 1..Len(this.ParentOut) :
       this.ParentOut[i].by \in {"childOut", "flush"} => ~HasMarker(this.ParentOut[i].data)
  /\ \A i \in 1..Len(Blocks(this)) :
       Blocks(this)[i].Type = historyTypeShellOutput => ~HasMarker(Blocks(this)[i].Content)

\* the data Mux hands to InputFromParent in this step, if a chunk arrives
Dispatched == this.parentInBuffer \o Last(arrived').data

\* C4: in Prompting, a chunk with a carriage return leaves the shell in
\* PromptResponse: for a plain prompt, an Aquarium start and an Aquarium chat
C4_SubmitResponds ==
  [][(/\ arrived' # arrived
      /\ this.State = statePrompting
      /\ Contains(Dispatched, <<CR>>)
      /\ ~incompleteAnsiSequence(Dispatched)
      /\ ~Panicked(this'))
       => this'.State = statePromptResponse]_vars

\* C5: after Ctrl-C in PromptResponse the shell gets back to Normal, whatever
\* the completion had streamed: as long as the shell is in PromptResponse, the
\* cancelled completion still has its prompt-output message to deliver (only
\* that message takes the shell out of PromptResponse)
C5_CancelReturnsToNormal ==
  LET t == ResponseTask(this)
  IN  (this.State = statePromptResponse /\ t > 0 /\ this.tasks[t].cancelled)
        => t \in InFlight(this)

\* the bytes of a sequence
Range(q) == {q[i] : i \in 1..Len(q)}

\* the bytes, other than Ctrl-C, of the chunks that arrived in PromptResponse
TypedInResponse ==
  UNION {Range(arrived[i].data) \ {ETX} :
           i \in {j \in 1..Len(arrived) : arrived[j].state = statePromptResponse}}

\* C6: a byte that arrives in PromptResponse and is not Ctrl-C is discarded:
\* it is never written to the child and never put in the prompt or the
\* command buffer
C6_TypedInResponseDiscarded ==
  /\ TypedInResponse \cap Range(Written(this.ChildIn, {"forward"})) = {}
  /\ TypedInResponse \cap Range(String(this.Command)) = {}
  /\ TypedInResponse \cap Range(String(this.Prompt)) = {}

\* C7: from Normal, once "ls" and Enter have been processed, in whatever
\* pieces they came, the child has received exactly "ls\r", the history has
\* gained exactly one ShellInput block "ls", and the shell is in Normal
C7_LsForwarded ==
  (scenario = ScenarioLs /\ parentStream = <<>>)
    => /\ Written(this.ChildIn, {this.ChildIn[i].by : i \in 1..Len(this.ChildIn)})
            = Ls \o <<CR>>
       /\ Blocks(this) = <<[Type |-> historyTypeShellInput, Content |-> Ls]>>
       /\ this.State = stateNormal

\* C8: "How do I grep?" and Enter, in whatever pieces they come: Prompting
\* from the 'H' on, PromptResponse at the Enter, exactly one completion, whose
\* prompt is exactly "How do I grep?", no byte of the prompt written to the
\* child, and a newline written to the child when the completion is done
C8_PromptSent ==
  scenario = ScenarioGrep
    => /\ (arrived # <<>> /\ parentStream # <<>>) => this.State = statePrompting
       /\ parentStream = <<>>
            => /\ Len(this.tasks) = 1
               /\ this.tasks[1].kind = "SendPrompt"
               /\ this.tasks[1].prompt = HowDoIGrep
               /\ IF 1 \in InFlight(this)
                  THEN this.State = statePromptResponse /\ this.ChildIn = <<>>
                  ELSE /\ this.State = stateNormal
                       /\ this.ChildIn = <<[by |-> "newPrompt", data |-> <<LF>>]>>
       /\ Written(this.ChildIn, {"forward"}) = <<>>

\* what Tab does in state s: InputFromParent for the one byte
PressTab(s, col, running) == InputFromParent(s, Env(col, running), <<TAB>>).s

\* Tab has realised the pending suggestion: its tail went to the child and not
\* to the terminal, the command buffer is the old one followed by the tail,
\* with the cursor at its end, no suggestion is pending, and the state is Shell
Realized(s, after) ==
  /\ Written(after.ChildIn, {"RealizeAutosuggest"})
       = Written(s.ChildIn, {"RealizeAutosuggest"})
           \o RightArrows(Size(s.Command) - Cursor(s.Command)) \o s.LastAutosuggest
  /\ Len(after.ChildIn) > Len(s.ChildIn)
  /\ Last(after.ChildIn).data = s.LastAutosuggest
  /\ \A i \in (Len(s.ParentOut) + 1)..Len(after.ParentOut) :
       ~Contains(after.ParentOut[i].data, s.LastAutosuggest)
  /\ String(after.Command) = String(s.Command) \o s.LastAutosuggest
  /\ Cursor(after.Command) = Size(after.Command)
  /\ after.LastAutosuggest = <<>>
  /\ after.State = stateShell

\* a suggestion is pending in Shell or Normal
TabCase == Alive /\ this.State \in {stateShell, stateNormal} /\ this.LastAutosuggest # <<>>

\* C9, as stated: in Shell, and in Normal, Tab realises the pending
\* suggestion, whatever the child is running
C9_TabRealizesAlways ==
  TabCase
    => \A col \in scenario.cols, running \in (IF scenario.mayRun THEN BOOLEAN ELSE {FALSE}) :
         Realized(this, PressTab(this, col, running))

\* C9, amended: in Shell, and in Normal while the child has no job in the
\* foreground, Tab realises the pending suggestion
C9_TabRealizes ==
  TabCase
    => \A col \in scenario.cols, running \in (IF scenario.mayRun THEN BOOLEAN ELSE {FALSE}) :
         (this.State = stateShell \/ ~running) => Realized(this, PressTab(this, col, running))

\* C9: Tab has been pressed on "ls" with the suggestion "ls -la" pending
C9_TabPressed ==
  /\ this.ChildIn # <<>>
  /\ Last(this.ChildIn) = [by |-> "RealizeAutosuggest", data |-> Drop(LsLa, 2)]
  /\ String(this.Command) = LsLa
  /\ this.State = stateShell

\* the command of the line a completion's text ends in
FinalRun(text) ==
  LET line == Last(SplitLines(text))
  IN  IF HasPrefix(line, RunPrefix) THEN Drop(line, Len(RunPrefix)) ELSE <<>>

\* C10: Mux processes a completion whose text ends in a "RUN: <cmd>" line: it
\* sends "<cmd>\n" to the child
C10_Dispatched ==
  \A t \in 1..Len(this.tasks) :
    (Processed(t) /\ this.AquariumMode /\ FinalRun(this.tasks[t].toSend) # <<>>)
      => /\ this'.ChildIn # <<>>
         /\ Last(this'.ChildIn).data = FinalRun(this.tasks[t].toSend) \o <<LF>>
         /\ Len(this'.ChildIn) = Len(this.ChildIn) + 2

\* C10: Mux starts the completion that answers a command: two prompt markers
\* have arrived since the command was sent, and the prompt holds the child
\* output since then and the exit status of the last marker
C10_Answered ==
  (/\ sinceRun # Nil
   /\ childStream' # childStream
   /\ Len(this'.tasks) > Len(this.tasks))
    => LET ps1 == ParsePS1(Deref(sinceRun) \o Head(childStream))
           task == Last(this'.tasks)
       IN  /\ ps1.count >= 2
           /\ Contains(task.prompt, ps1.cleaned)
           /\ Contains(task.prompt, ExitCodeText \o Dec(ps1.last) \o <<LF>>)

\* C10: in Aquarium mode, a completion that ends in a "RUN: <cmd>" line makes
\* Mux send "<cmd>\n" to the child, and the next completion is started after
\* two prompt markers, with the output and the exit code of the command
C10_RunAndAnswer == [][C10_Dispatched /\ C10_Answered]_vars

\* the text declares the goal met or failed
GoalDeclared(text) == Contains(text, GoalAchieved) \/ Contains(text, GoalFailed)

\* C11: Mux processes, in Aquarium mode, a completion that declares the goal
\* met or failed: Aquarium mode ends, the state is Normal, the child gets the
\* newline that makes it show its prompt and no command, and no completion is
\* started
C11_GoalEnds ==
  \A t \in 1..Len(this.tasks) :
    (Processed(t) /\ this.AquariumMode /\ GoalDeclared(this.tasks[t].toSend))
      => /\ ~this'.AquariumMode
         /\ this'.State = stateNormal
         /\ this'.ChildIn = Append(this.ChildIn, [by |-> "newPrompt", data |-> <<LF>>])
         /\ Len(this'.tasks) = Len(this.tasks)

\* C11: outside Aquarium mode a completion is started only when the user
\* submits a prompt: in a step that handles a chunk with a carriage return
C11_OnlyTheUserStarts ==
  (~this.AquariumMode /\ Len(this'.tasks) > Len(this.tasks))
    => /\ arrived' # arrived
       /\ Contains(Dispatched, <<CR>>)

\* C11: a completion with 'GOAL ACHIEVED' or 'GOAL FAILED' ends Aquarium mode
\* and leaves the state Normal without a command sent to the child, also when
\* the text has a 'RUN: ' line; no completion is started after that until the
\* user submits a prompt
C11_GoalEndsAquarium == [][C11_GoalEnds /\ C11_OnlyTheUserStarts]_vars

\* C11: a completion whose text has a 'RUN: ' line and 'GOAL ACHIEVED' has been
\* processed, and both prompt markers of the child have arrived since
C11_GoalWithRunProcessed ==
  /\ scenario = ScenarioGoalRun
  /\ Len(this.tasks) = 1
  /\ this.tasks[1].phase = "done"
  /\ parseAquariumCommand(this.tasks[1].toSend) # <<>>
  /\ GoalDeclared(this.tasks[1].toSend)
  /\ childStream = <<>>
  /\ ~this.AquariumMode

\* the texts the completions have handed over
Outputs == {this.tasks[t].toSend : t \in {u \in 1..Len(this.tasks) : this.tasks[u].phase \in {"send", "done"}}}

\* C12: the parser finds a command only in the final line of a completion's
\* text: its result is the rest of the final line if that line starts with
\* "RUN: ", and nothing otherwise, whatever the earlier lines are
C12_FinalLineOnly ==
  \A text \in Outputs : parseAquariumCommand(text) = FinalRun(text)

\* the buffer an autosuggest result is for in state s (Mux's switch)
SuggestedBuffer(s) == IF s.State = statePrompting THEN s.Prompt ELSE s.Command

\* the result is one to render: its command is the buffer's content, and its
\* suggestion is not empty, has no newline, is not the suggestion rendered
\* last (the buffer followed by the pending tail), is not the buffer's
\* content, and starts with it, whatever the case of the letters
Renderable(s, result) ==
  LET buf == String(SuggestedBuffer(s))
  IN  /\ s.State \in {statePrompting, stateShell, stateNormal}
      /\ result.Command = buf
      /\ result.Suggestion # <<>>
      /\ ~Contains(result.Suggestion, <<LF>>)
      /\ ~(s.LastAutosuggest # <<>> /\ result.Suggestion = buf \o s.LastAutosuggest)
      /\ result.Suggestion # buf
      /\ HasPrefix(ToLower(result.Suggestion), ToLower(buf))

\* what was written to the terminal, the requests for the cursor position
\* left out
Shown(s) == SelectSeq(s.ParentOut, LAMBDA w : w.by # "GetCursorPosition")

\* C13: a result of an autosuggest goroutine changes LastAutosuggest only if
\* it is for the buffer's present content and its suggestion is not empty, has
\* no newline, is not the one rendered last, is not the buffer's content and
\* starts with it (case-insensitively); any other result leaves
\* LastAutosuggest, the buffers and the terminal as they are
C13_OnlyMatchingResultsShown ==
  Alive =>
    \A t \in {u \in 1..Len(this.autos) : this.autos[u].alive},
       col \in CursorCols, output \in scenario.sugg :
      LET result == [Command |-> this.autos[t].command, Suggestion |-> CleanSuggestion(output)]
          after == MuxAutosuggest(this, Env(col, FALSE), t, result.Suggestion)
      IN  ~Renderable(this, result)
            => /\ after.LastAutosuggest = this.LastAutosuggest
               /\ after.Prompt = this.Prompt
               /\ after.Command = this.Command
               /\ Shown(after) = Shown(this)

\* what the user may type next while a suggestion is pending: its first
\* character, its first two characters, or an 'x'
TypedNext(s) ==
  {Take(s.LastAutosuggest, k) : k \in 1..(IF Len(s.LastAutosuggest) > 1 THEN 2 ELSE 1)}
    \cup {<<120>>}

\* C14: with a suggestion pending, typing at the end of the buffer the first k
\* characters of LastAutosuggest shortens LastAutosuggest by those k characters
\* and starts no autosuggest request; any other edit clears the suggestion and
\* starts one request
C14_TypingContractsOrRefreshes ==
  (/\ Alive
   /\ this.State \in {stateNormal, stateShell, statePrompting}
   /\ this.LastAutosuggest # <<>>
   /\ this.parentInBuffer = <<>>)
    => \A col \in scenario.cols, data \in TypedNext(this) :
         LET buffer == SuggestedBuffer(this)
             after == MuxParentIn(this, Env(col, FALSE), data)
         IN  IF Cursor(buffer) = Size(buffer) /\ HasPrefix(this.LastAutosuggest, data)
             THEN /\ ~Panicked(after)
                  /\ after.LastAutosuggest = Drop(this.LastAutosuggest, Len(data))
                  /\ after.requests = this.requests
             ELSE /\ after.LastAutosuggest = <<>>
                  /\ after.requests = this.requests + 1

\* Mux handles a chunk of keystrokes, other than Enter and Tab, that arrives in
\* Shell and leaves the command buffer empty or with nothing but white space
BlankKeystroke ==
  /\ this.State = stateShell
  /\ this.parentInBuffer = <<>>
  /\ arrived' # arrived
  /\ ~Contains(Last(arrived').data, <<CR>>)
  /\ ~Contains(Last(arrived').data, <<TAB>>)
  /\ ~Panicked(this')
  /\ TrimSpace(String(this'.Command)) = <<>>

\* C15, as stated: a keystroke in Shell that leaves the command buffer empty
\* or with white space only starts no autosuggest request
C15_NoRequestForBlank == [][BlankKeystroke => this'.requests = this.requests]_vars

\* C15, amended: a keystroke in Shell that leaves white space only in the
\* command buffer starts no autosuggest request; one that leaves it empty
\* starts one request, for the empty command
C15_RequestForEmptyOnly ==
  [][BlankKeystroke
       => IF String(this'.Command) = <<>> /\ this.AutosuggestEnabled /\ scenario.promptLibOK
          THEN /\ this'.requests = this.requests + 1
               /\ Last(this'.autos).command = <<>>
          ELSE this'.requests = this.requests]_vars

\* C15: in Shell a space was typed and then all was deleted: the one request
\* is the one for the empty command
C15_BlankThenEmpty ==
  /\ scenario = ScenarioBlank
  /\ parentStream = <<>>
  /\ \E i \in 1..Len(arrived) : arrived[i].state = stateShell /\ arrived[i].data = <<SP>>
  /\ Last(arrived) = [state |-> stateShell, data |-> <<DEL>>]
  /\ String(this.Command) = <<>>
  /\ this.requests = 1
  /\ this.autos[1].command = <<>>

\* C16: after any Write and Clear calls from the empty buffer the cursor is
\* within 0..|buf|; a backspace with the cursor at 0 changes nothing, and
\* neither does a left arrow there, nor a right arrow with the cursor at |buf|
C16_CursorInBounds ==
  LET b == this.Prompt
  IN  /\ 0 <= Cursor(b) /\ Cursor(b) <= Size(b)
      /\ Cursor(b) = 0
           => /\ Write(b, <<BS>>) = b
              /\ Write(b, <<DEL>>) = b
              /\ Write(b, CSI \o <<68>>) = b
      /\ Cursor(b) = Size(b) => Write(b, CSI \o <<67>>) = b

\* C16: "ab" has been written and the cursor moved to its start
C16_CursorAtStart ==
  /\ String(this.Prompt) = <<97, 98>>
  /\ Cursor(this.Prompt) = 0

\* control characters that are no backspace, and sequences that are no arrow:
\* NUL, Ctrl-C, Ctrl-U, a lone ESC, and CSI Z
Controls == { <<0>>, <<ETX>>, <<21>>, <<ESC>>, CSI \o <<90>> }

\* C17: writing a control character that is neither a backspace nor part of
\* an arrow sequence leaves the content and the cursor of the buffer as they
\* are
C17_ControlIgnored ==
  \A data \in Controls : Write(this.Prompt, data) = this.Prompt

\* ------------------------------------------------- a terminal, for C18
\* A terminal w columns wide: cells[r * w + c + 1] is the character at row r,
\* column c (a space where nothing is shown); the cursor is at (row, col);
\* wrap says that the last column has just been written and the next
\* character goes to the start of the next row (the VT100's autowrap).
TermRows == MaxBuf + 3

Min(a, b) == IF a < b THEN a ELSE b

\* the character ch is shown at the cursor
TermPut(t, w, ch) ==
  LET row == IF t.wrap THEN t.row + 1 ELSE t.row
      col == IF t.wrap THEN 0 ELSE t.col
  IN  [cells |-> [t.cells EXCEPT ![row * w + col + 1] = ch],
       row |-> row,
       col |-> IF col = w - 1 THEN col ELSE col + 1,
       wrap |-> (col = w - 1)]

\* CSI n final: cursor up (A), right (C), left (D), erase to the end of the
\* line (K); a parameter 0 counts as 1; the colours (m) show nothing
TermCSI(t, w, n, final) ==
  LET k == Max(n, 1)
  IN  IF final = 65 THEN [t EXCEPT !.row = Max(0, t.row - k), !.wrap = FALSE]
      ELSE IF final = 67 THEN [t EXCEPT !.col = Min(w - 1, t.col + k), !.wrap = FALSE]
      ELSE IF final = 68 THEN [t EXCEPT !.col = Max(0, t.col - k), !.wrap = FALSE]
      ELSE IF final = 75
      THEN [t EXCEPT !.cells = [i \in 1..Len(t.cells) |->
                                  IF i > t.row * w + t.col /\ i <= (t.row + 1) * w
                                  THEN SP ELSE t.cells[i]]]
      ELSE t

RECURSIVE ParamRun(_, _)
\* the number of parameter bytes (digits and ';') of s from position i on
ParamRun(s, i) ==
  IF i <= Len(s) /\ (IsDigit(s[i]) \/ s[i] = 59) THEN 1 + ParamRun(s, i + 1) ELSE 0

RECURSIVE TermApply(_, _, _, _)
\* the terminal after the bytes out[i..]
TermApply(t, w, out, i) ==
  IF i > Len(out) THEN t
  ELSE IF out[i] = ESC /\ i < Len(out) /\ out[i + 1] = 91
  THEN LET d == ParamRun(out, i + 2)
           n == Atoi(SubSeq(out, i + 2, i + 1 + DigitRun(out, i + 2)))
       IN  TermApply(TermCSI(t, w, n, out[i + 2 + d]), w, out, i + 3 + d)
  ELSE IF out[i] = CR THEN TermApply([t EXCEPT !.col = 0, !.wrap = FALSE], w, out, i + 1)
  ELSE IF out[i] = LF
  THEN TermApply([t EXCEPT !.row = Min(TermRows - 1, t.row + 1), !.wrap = FALSE],
                 w, out, i + 1)
  ELSE TermApply(TermPut(t, w, out[i]), w, out, i + 1)

\* the terminal that shows the buffer b after a prompt of b.promptLength
\* characters ('>'), with the cursor where the buffer's cursor is
Show(b) ==
  LET w == b.termWidth
      p == b.promptLength
  IN  [cells |-> [i \in 1..(TermRows * w) |->
                    IF i <= p THEN 62
                    ELSE IF i - p <= Len(b.buffer) THEN b.buffer[i - p]
                    ELSE SP],
       row |-> (b.cursor + p) \div w,
       col |-> (b.cursor + p) % w,
       wrap |-> FALSE]

\* C18: for a width W > 0, the bytes a Write or a Clear returns, applied to a
\* terminal that shows the buffer as it was, with the cursor where it was,
\* make the terminal show the buffer as it is now, with the cursor where it
\* is now, and nothing left of the old buffer
C18_UpdateRedraws ==
  LET b == this.Prompt
  IN  b.termWidth > 0
        => /\ \A data \in Keys :
                TermApply(Show(b), b.termWidth, WriteOut(b, data), 1) = Show(Write(b, data))
           /\ TermApply(Show(b), b.termWidth, ClearOut(b), 1) = Show(Clear(b))

\* the texts Append is tried with: those of HistoryInputs, "bc" and a delete
AppendInputs == HistoryInputs \cup {<<98, 99>>, <<DEL>>}

\* Append(historyType, data) has turned the blocks h into after: into the
\* last block if that has the type, and into one new block of the type
\* otherwise, the blocks before as they were
AppendedTo(h, historyType, data, after) ==
  IF Len(h) > 0 /\ h[Len(h)].Type = historyType
  THEN /\ Len(after) = Len(h)
       /\ \A i \in 1..(Len(h) - 1) : after[i] = h[i]
       /\ after[Len(h)].Type = historyType
  ELSE /\ Len(after) = Len(h) + 1
       /\ SubSeq(after, 1, Len(h)) = h
       /\ after[Len(after)].Type = historyType

\* the content of the last block before the append ("" for a new block)
Tail0(h, historyType) ==
  IF Len(h) > 0 /\ h[Len(h)].Type = historyType THEN h[Len(h)].Content ELSE NewShellBuffer

\* C19, as stated: Append(T, b) with b not empty appends to the last block
\* exactly when it has type T, and its content is then a followed by b;
\* otherwise there is one new block of type T with content b; the earlier
\* blocks are as they were
C19_AppendConcatenates ==
  \A historyType \in 0..3, data \in AppendInputs :
    LET h == this.History
        after == HistoryAppend(h, historyType, data)
    IN  /\ AppendedTo(h, historyType, data, after)
        /\ String(after[Len(after)].Content) = String(Tail0(h, historyType)) \o data

\* no backspace, delete or escape in the text
PlainText(data) == \A i \in 1..Len(data) : data[i] \notin {BS, DEL, ESC}

\* C19, amended: the same for the blocks and their types; the content is a
\* followed by b if b has no backspace and no arrow sequence and the block's
\* cursor is at its end; a backspace in b deletes the rune before the cursor
C19_AppendWrites ==
  \A historyType \in 0..3, data \in AppendInputs :
    LET h == this.History
        a == Tail0(h, historyType)
        after == HistoryAppend(h, historyType, data)
        content == String(after[Len(after)].Content)
    IN  /\ AppendedTo(h, historyType, data, after)
        /\ (PlainText(data) /\ Cursor(a) = Size(a)) => content = String(a) \o data
        /\ (data \in {<<BS>>, <<DEL>>} /\ Cursor(a) = Size(a))
             => content = Take(String(a), Size(a) - 1)

\* C19: "a" was appended twice with one type and once with another
C19_Coalesced ==
  /\ Len(this.History) = 2
  /\ String(this.History[1].Content) = <<97, 97>>
  /\ String(this.History[2].Content) = <<97>>
  /\ this.History[1].Type # this.History[2].Type

RECURSIVE TotalLength(_)
\* the bytes of the contents of the blocks that GetLastNBytes returned
TotalLength(r) == IF r = <<>> THEN 0 ELSE Len(Head(r).Content) + TotalLength(Tail(r))

\* C20: GetLastNBytes(B, L) returns blocks of at most B bytes in all, each of
\* at most L bytes, in the order of the history: they are the last blocks of
\* the history, each cleaned and cut to L bytes
C20_LastNBytesFits ==
  \A numBytes \in 0..MaxBytes, truncateLength \in 0..MaxTruncate :
    LET h == this.History
        r == GetLastNBytes(h, numBytes, truncateLength)
        k == Len(h) - Len(r)
    IN  /\ Len(r) <= Len(h)
        /\ TotalLength(r) <= numBytes
        /\ \A i \in 1..Len(r) :
             /\ Len(r[i].Content) <= truncateLength
             /\ r[i].Type = h[k + i].Type
             /\ LET full == sanitizeTTYString(String(h[k + i].Content))
                IN  r[i].Content = Take(full, Min(Len(full), truncateLength))

\* C20: the history is "a" and then "aa": with 2 bytes allowed and blocks cut
\* to 2 bytes only the last block is returned, with blocks cut to 1 byte both
C20_CutAndBailedOut ==
  /\ Len(this.History) = 2
  /\ String(this.History[1].Content) = <<97>>
  /\ String(this.History[2].Content) = <<97, 97>>
  /\ Len(GetLastNBytes(this.History, 2, 2)) = 1
  /\ Len(GetLastNBytes(this.History, 2, 1)) = 2

\* the positions of s where a match of " [0-9]+" suffix starts
MatchStarts(s) == {i \in 1..Len(s) : ps1Regex(s, i) > 0}

\* s without the bytes of its matches
WithoutMatches(s) ==
  LET in == {j \in 1..Len(s) : \E i \in MatchStarts(s) : j >= i /\ j < i + ps1Regex(s, i)}
      keep(j) == j \notin in
  IN  Flatten([j \in 1..Len(s) |-> IF keep(j) THEN <<s[j]>> ELSE <<>>])

\* s without the bytes of its prefixes
WithoutPrefixes(s) ==
  LET in == {j \in 1..Len(s) : \E i \in {j - 1, j} :
                                  i >= 1 /\ i < Len(s) /\ SubSeq(s, i, i + 1) = promptPrefix}
  IN  Flatten([j \in 1..Len(s) |-> IF j \in in THEN <<>> ELSE <<s[j]>>])

\* the chunk the child printed, or is to print
PS1Chunk == scenario.child[1]

\* count is the number of matches, last the number in the final match (0
\* without one), cleaned the chunk without its matches and then its prefixes;
\* once Mux has handled the chunk, count was added to PromptSuffixCounter and
\* cleaned was written to the terminal
PS1Parsed ==
  LET s == PS1Chunk
      ps1 == ParsePS1(s)
      starts == MatchStarts(s)
      final == CHOOSE i \in starts : \A j \in starts : j <= i
  IN  /\ ps1.count = Cardinality(starts)
      /\ ps1.last = IF starts = {} THEN 0
                    ELSE Atoi(SubSeq(s, final + 1, final + ps1Regex(s, final) - 3))
      /\ ps1.cleaned = WithoutPrefixes(WithoutMatches(s))
      /\ childStream = <<>>
           => /\ this.PromptSuffixCounter = ps1.count
              /\ Written(this.ParentOut, {"childOut"}) = ps1.cleaned

\* "prefix foo\nbar $ baz $ "
PS1ExampleSpaced ==
  <<112, 114, 101, 102, 105, 120, 32, 102, 111, 111, LF, 98, 97, 114, 32, 36, 32,
    98, 97, 122, 32, 36, 32>>

\* "prefix foo\nbar $baz $"
PS1ExampleCleaned ==
  <<112, 114, 101, 102, 105, 120, 32, 102, 111, 111, LF, 98, 97, 114, 32, 36,
    98, 97, 122, 32, 36>>

\* C21, as stated: ParsePS1 returns the number of matches, the number in the
\* final match (0 without one) and the text without the markers; for
\* "prefix foo\nbar $ 0<SUFFIX>baz $ 137<SUFFIX>" these are 2, 137 and
\* "prefix foo\nbar $ baz $ "
C21_ParsesAsStated ==
  /\ PS1Parsed
  /\ PS1Chunk = PS1Example
       => ParsePS1(PS1Chunk) = [last |-> 137, count |-> 2, cleaned |-> PS1ExampleSpaced]

\* C21, amended: the same, the space before the digits being part of the
\* match: for the example the text without the markers is
\* "prefix foo\nbar $baz $"
C21_Parses ==
  /\ PS1Parsed
  /\ PS1Chunk = PS1Example
       => ParsePS1(PS1Chunk) = [last |-> 137, count |-> 2, cleaned |-> PS1ExampleCleaned]

\* C21: Mux has handled the example chunk
C21_ExampleParsed ==
  /\ PS1Chunk = PS1Example
  /\ childStream = <<>>
  /\ this.PromptSuffixCounter = 2
  /\ Written(this.ParentOut, {"childOut"}) = PS1ExampleCleaned

ForegroundChunks == { <<72, CR>>, <<33>>, <<TAB>>, <<CR>>, <<108>>, <<ETX>> }

\* C23: in Normal state, while the child has a job in the foreground, a chunk
\* of parent input is written to the child as it is and once, nothing of it is
\* left over, and no other field of the shell state changes (state, prompt
\* and command buffers, history, pending suggestion, terminal), whatever the
\* chunk holds; the same when it comes through the loop of Mux.
C23_ForegroundForwards ==
  this.State = stateNormal =>
    \A data \in ForegroundChunks, col \in scenario.cols :
      LET r == InputFromParent(this, Env(col, TRUE), data)
          forwarded == [this EXCEPT !.ChildIn =
                          Append(this.ChildIn, [by |-> "forward", data |-> data])]
      IN  /\ r.leftover = <<>>
          /\ r.s = forwarded
          /\ this.parentInBuffer = <<>> =>
               MuxParentIn(this, Env(col, TRUE), data) = forwarded

\* "H" and CR arrived in Normal state during a foreground job and went to the
\* child, the state still Normal and no prompt begun
C23_PromptKeysForwarded ==
  /\ this.State = stateNormal
  /\ \E i \in 1..Len(this.ChildIn) :
       this.ChildIn[i] = [by |-> "forward", data |-> <<72, CR>>]
  /\ this.Prompt.buffer = <<>>

\* ------------------------------------------------------------------- C24
\* C24: whenever a prompt completion is in flight and has not been
\* cancelled, PromptResponseCancel is the handle of that completion and a
\* Ctrl-C from the parent cancels it.
C24_InFlightCancellable ==
  \A t \in InFlight(this) :
    ~this.tasks[t].cancelled =>
      /\ this.PromptResponseCancel = t
      /\ \A col \in scenario.cols :
           LET r == InputFromParent(this, Env(col, FALSE), <<ETX>>)
           IN  ~Panicked(r.s) /\ r.s.tasks[t].cancelled

\* ------------------------------------------------------------------- C25
\* the autosuggest goroutines that have not returned, and the goroutines
\* alive in all: the two stream readers, the autosuggest requests and the
\* prompt completions
AliveAutosuggests(s) == {a \in 1..Len(s.autos) : s.autos[a].alive}

BackgroundTasks(s) == 2 + Cardinality(AliveAutosuggests(s)) + Cardinality(InFlight(s))

\* C25: at most 4 background tasks are alive at any time: the two stream
\* readers, at most one autosuggest request and at most one prompt
\* completion; an autosuggest request that has been replaced is not alive
\* any more when the next one has been started.
C25_AtMostFourTasks ==
  /\ BackgroundTasks(this) <= 4
  /\ Cardinality(AliveAutosuggests(this)) <= 1
  /\ Cardinality(InFlight(this)) <= 1

\* ------------------------------------------------------------------- C26
\* what this step writes to the child
ChildInAdded ==
  {this'.ChildIn[i] : i \in (Len(this.ChildIn) + 1)..Len(this'.ChildIn)}

\* C26: the newline that makes the child print a new prompt is written only
\* in the step in which Mux processes a completion's prompt-output message,
\* and while a prompt has been dispatched and its result has not been
\* processed no step writes anything to the child.
C26_NothingToChildMeanwhile ==
  [][/\ (\E w \in ChildInAdded : w.by = "newPrompt")
          => \E t \in 1..Len(this.tasks) : Processed(t)
     /\ \A t \in InFlight(this) :
          ~Processed(t) => this'.ChildIn = this.ChildIn]_vars

\* ------------------------------------------------------------------- C27
\* the update out of the buffer b has CR LF right after the buffer's text
ForcedNewline(b, out) == Contains(out, b.buffer \o <<CR, LF>> \o ESC_CLEAR)

\* C27: for a width W > 0, the update a Write returns has the forced CR LF
\* after the buffer's text exactly when (|buf| + P) mod W = 0 and |buf| > 0,
\* buf the buffer after the write and P the prompt length; an update that
\* leaves the buffer empty never has it.
C27_NewlineOnlyWhenFull ==
  LET b == this.Prompt
  IN  b.termWidth > 0 =>
        \A data \in Keys :
          LET after == Write(b, data)
          IN  ForcedNewline(after, WriteOut(b, data))
                <=> /\ (Len(after.buffer) + after.promptLength) % after.termWidth = 0
                    /\ Len(after.buffer) > 0

\* ------------------------------------------------------------------- C28
\* C28: when the result of an autosuggest request is shown for the command
\* buffer, with the cursor reported in column P + 1 of a terminal W wide and
\* J runes of the buffer after the cursor, nothing is drawn if P + J >= W,
\* and the suggestion is recorded in LastAutosuggest only if it is drawn.
C28_NoDrawPastWidth ==
  (this.State = stateShell /\ this.TerminalWidth > 0) =>
    \A sg \in scenario.sugg, col \in 1..this.TerminalWidth :
      LET buffer == this.Command
          result == [Command |-> String(buffer), Suggestion |-> sg]
          r == ShowAutosuggest(this, "Command", result, col - 1, this.TerminalWidth)
          J == Size(buffer) - Cursor(buffer)
          drawn == r.ParentOut # this.ParentOut
      IN  /\ (col - 1) + J >= this.TerminalWidth => ~drawn
          /\ r.LastAutosuggest # this.LastAutosuggest => drawn

\* ------------------------------------------------------------------- C29
\* the content of a block, cleaned and cut to truncateLength bytes
CutContent(block, truncateLength) ==
  LET full == sanitizeTTYString(String(block.Content))
  IN  Take(full, Min(Len(full), truncateLength))

RECURSIVE CutLength(_, _, _)
\* the bytes of the blocks of h from block j on, each cut to truncateLength
CutLength(h, j, truncateLength) ==
  IF j > Len(h) THEN 0
  ELSE Len(CutContent(h[j], truncateLength)) + CutLength(h, j + 1, truncateLength)

\* C29: the blocks GetLastNBytes(B, L) returns are the last blocks of the
\* history, one after the other: a block that, cut to L bytes, does not fit
\* in what the later blocks leave of B is not returned and no earlier block
\* is, and a returned block is the whole block cut to L bytes, never one
\* shortened to fit B.
C29_TrailingRun ==
  \A numBytes \in 0..MaxBytes, truncateLength \in 0..MaxTruncate :
    LET h == this.History
        r == GetLastNBytes(h, numBytes, truncateLength)
        k == Len(h) - Len(r)
    IN  /\ k >= 0
        /\ \A j \in 1..Len(h) :
             Len(CutContent(h[j], truncateLength))
                 > numBytes - CutLength(h, j + 1, truncateLength)
               => k >= j
        /\ \A i \in 1..Len(r) :
             r[i] = [Type |-> h[k + i].Type,
                     Content |-> CutContent(h[k + i], truncateLength)]

\* the history is "a" and then "aa": with 1 byte allowed the last block does
\* not fit and the first, which would, is not returned either; with 3 bytes
\* both are
C29_BailedOutAtLast ==
  /\ Len(this.History) = 2
  /\ String(this.History[1].Content) = <<97>>
  /\ String(this.History[2].Content) = <<97, 97>>
  /\ GetLastNBytes(this.History, 1, 2) = <<>>
  /\ Len(GetLastNBytes(this.History, 3, 2)) = 2

\* ------------------------------------------------------------------- C30
\* the bounds: the markers in one chunk of child output, the chunks of a
\* round, and the rounds fed after an answer
MarkersPerChunk == 25
ChunksPerRound == 20
MaxRounds == 21

\* n markers of exit status 0, one after the other
Markers(n) == [i \in 1..(n * Len(Marker(0))) |-> Marker(0)[((i - 1) % Len(Marker(0))) + 1]]

MarkerChunk == Markers(MarkersPerChunk)

RECURSIVE FedChunks(_, _)
\* the shell state after n chunks of markers have come from the child
FedChunks(s, n) ==
  IF n = 0 THEN s
  ELSE LET s1 == MuxChildOut(s, Env(1, FALSE), MarkerChunk)
       IN  IF Panicked(s1) THEN s1 ELSE FedChunks(s1, n - 1)

RECURSIVE Fed(_, _)
\* the shell state after r rounds of chunks of markers
Fed(s, r) ==
  IF r = 0 THEN s
  ELSE LET s1 == FedChunks(s, ChunksPerRound)
       IN  IF Panicked(s1) THEN s1 ELSE Fed(s1, r - 1)

\* an answer with neither "GOAL ACHIEVED" nor "GOAL FAILED" nor a "RUN: " line
PlainAnswer(output) ==
  /\ ~Contains(output, GoalAchieved)
  /\ ~Contains(output, GoalFailed)
  /\ parseAquariumCommand(output) = <<>>

\* C30: in Aquarium mode, once Mux has processed a completion that has
\* neither "GOAL ACHIEVED" nor "GOAL FAILED" nor a "RUN: " line, the prompt
\* markers the child prints afterwards start no completion, however many
\* they are, as long as no later completion has sent a "RUN: " command.
C30_PlainAnswerSilencesMarkers ==
  [][\A t \in 1..Len(this.tasks) :
       (Processed(t) /\ this.AquariumMode /\ PlainAnswer(this.tasks[t].toSend))
         => Len(Fed(this', MaxRounds).tasks) = Len(this'.tasks)]_vars

\* ------------------------------------------------------------------- C31
IsSuffix(t, s) == Len(t) <= Len(s) /\ SubSeq(s, Len(s) - Len(t) + 1, Len(s)) = t

\* chunks of parent input: a prompt with its CR and a letter after it, two
\* Ctrl-C, a command with its CR and a capital after it, Tab and a letter,
\* a letter, and the beginning of an escape sequence
InputChunks ==
  { <<72, CR, 108>>, <<ETX, ETX>>, <<108, CR, 72>>, <<TAB, 97>>, <<97>>, <<ESC, 91>> }

C32_EatNeverPanics == this.panic # "jump forward should be 0"

\* ------------------------------------------------------------------- C33
\* what the results of the autosuggest requests made for a prompt (a buffer
\* that begins with a capital or '!') would add to that prompt
PromptSuggestions(s) ==
  {Drop(CleanSuggestion(sg), Len(s.autos[t].command)) :
     sg \in scenario.sugg,
     t \in {a \in 1..Len(s.autos) :
              /\ s.autos[a].command # <<>>
              /\ IsUpper(s.autos[a].command[1]) \/ s.autos[a].command[1] = 33}}

\* C33: no text of a prompt is written to the child: no chunk that arrived
\* in Prompting state is forwarded, and no suggestion computed for the
\* prompt buffer is realized into the child, also after the prompt has been
\* given up with Ctrl-C and Tab is pressed in Normal state.
C33_NoPromptTextToChild ==
  /\ \A i \in 1..Len(this.ChildIn) :
       this.ChildIn[i].by = "RealizeAutosuggest"
         => this.ChildIn[i].data \notin PromptSuggestions(this)
  /\ \A i \in 1..Len(arrived) :
       (arrived[i].state = statePrompting /\ arrived[i].data # <<CR>>)
         => \A j \in 1..Len(this.ChildIn) :
              this.ChildIn[j].by = "forward" => this.ChildIn[j].data # arrived[i].data

\* ------------------------------------------------------------------- C34
\* C34: whenever the state is PromptResponse, PromptResponseCancel is not
\* nil, so that a Ctrl-C dispatched in that state never calls a nil function:
\* also during a canned response and for a second Ctrl-C during a response.
C34_CancelNeverNil ==
  this.State = statePromptResponse =>
    /\ this.PromptResponseCancel # 0
    /\ \A col \in scenario.cols :
         ~Panicked(InputFromParent(this, Env(col, FALSE), <<ETX>>).s)

\* ------------------------------------------------------------------- C35
\* C35: at most one prompt completion is in flight at any time: none is
\* started (by SendPrompt, AquariumStart, AquariumChat or
\* AquariumCommandResponse) between the start of a completion and the
\* processing of its message on the prompt-output channel.
C35_OneCompletionInFlight ==
  [][/\ Cardinality(InFlight(this')) <= 1
     /\ (InFlight(this) # {} /\ InFlight(this) \subseteq InFlight(this'))
          => Len(this'.tasks) = Len(this.tasks)]_vars

\* ------------------------------------------------------------------- C36
\* chunks of parent input for the shell: CR and a letter, Tab and a letter,
\* two letters, a letter and CR
ForwardChunks == { <<CR, 108>>, <<TAB, 108>>, <<108, 115>>, <<108, CR>> }

\* C36: in Normal and Shell state no byte of a chunk of parent input is
\* written to the child twice: what Mux forwards to the child for a chunk is
\* not longer than the chunk, and is the chunk when no suggestion is pending.
C36_ForwardedOnce ==
  (this.State \in {stateNormal, stateShell} /\ this.parentInBuffer = <<>>) =>
    \A data \in ForwardChunks, col \in scenario.cols :
      LET after == MuxParentIn(this, Env(col, FALSE), data)
          added == SubSeq(after.ChildIn, Len(this.ChildIn) + 1, Len(after.ChildIn))
          forwarded == Written(added, {"forward"})
      IN  Panicked(after)
          \/ /\ Len(forwarded) <= Len(data)
             /\ this.LastAutosuggest = <<>> => forwarded = data

\* ------------------------------------------------------------------- C37
\* chunks that end a prompt: CR, a delete and CR, a letter and CR
ReturnChunks == { <<CR>>, <<DEL, CR>>, <<97, CR>> }

\* C37: when a carriage return is processed in Prompting state the prompt
\* buffer is not empty, so that its first character can be read, whatever
\* the chunk has before the carriage return.
C37_PromptNotEmptyAtCR ==
  this.State = statePrompting =>
    \A data \in ReturnChunks, col \in scenario.cols :
      LET index == IndexByte(data, CR)
      IN  /\ String(Write(this.Prompt, Take(data, index))) # <<>>
          /\ InputFromParent(this, Env(col, FALSE), data).s.panic # "index out of range"

\* ------------------------------------------------------------------- C38
\* C38: the markers counted, the text written to the terminal and the text
\* put in the history are the same whether a piece of child output arrives
\* as one chunk or cut in two at any place: a marker cut in two is counted
\* once, and nothing of it is shown or remembered.
C38_ChunkingIndependent ==
  childStream # <<>> =>
    LET whole == Head(childStream)
        env == Env(1, FALSE)
        one == MuxChildOut(this, env, whole)
    IN  \A k \in 1..(Len(whole) - 1) :
          LET two == MuxChildOut(MuxChildOut(this, env, Take(whole, k)), env, Drop(whole, k))
          IN  /\ two.PromptSuffixCounter = one.PromptSuffixCounter
              /\ Written(two.ParentOut, {"childOut"}) = Written(one.ParentOut, {"childOut"})
              /\ two.History = one.History

\* ------------------------------------------------------------------- C39
\* the suggestion that is pending in s is the one its AutosuggestBuffer
\* accounts for
Accounted(s) ==
  (s.LastAutosuggest # <<>> /\ s.AutosuggestBuffer # Nil)
    => Deref(s.AutosuggestBuffer).lastAutosuggestLen = Len(s.LastAutosuggest)

\* C39: whenever a suggestion is pending, lastAutosuggestLen of the
\* AutosuggestBuffer is the length of LastAutosuggest, and it still is after
\* the user has typed the beginning of the suggestion, one character or
\* several in one chunk.
C39_AccountingMatches ==
  Panicked(this)
  \/ /\ Accounted(this)
     /\ (this.State = stateShell /\ this.LastAutosuggest # <<>>)
          => \A n \in 1..Len(this.LastAutosuggest), col \in scenario.cols :
               LET r == InputFromParent(this, Env(col, FALSE), Take(this.LastAutosuggest, n))
               IN  Panicked(r.s) \/ Accounted(r.s)

\* ------------------------------------------------------------------- C40
\* C40: a suggestion is never drawn or erased on a buffer whose terminal
\* width is 0, so that WriteAutosuggest never divides by zero, also after a
\* resize whose size query failed or gave the width 0.
C40_WidthNeverZero == this.panic # "integer divide by zero"

====
